---- MODULE Spec2Model ----
(***************************************************************************)
(* A model of the NES emulator core: the memory bus (Memory), the 6502     *)
(* register file and flags (CPU), the addressing modes, the instruction    *)
(* set and the opcode switch of CPU.decodeAndExecute, the register file of *)
(* the PPU object, CPU.reset and loadRom.                                  *)
(*                                                                         *)
(* JavaScript numbers are modelled as integers.  The bitwise operators of  *)
(* the source (&, |, ^, <<, >>) act on 32-bit two's complement values; the *)
(* values that occur here stay far below 2^24, so they are computed on the *)
(* residue modulo Wrap, which keeps every bit a later mask can select.     *)
(***************************************************************************)
EXTENDS Integers, Sequences, FiniteSets, TLC

VARIABLES A, X, Y, PC, SP, Flags, data, phase, steps, last, prev, ppu, rom,
          calls, call, frame

vars ==
    <<A, X, Y, PC, SP, Flags, data, phase, steps, last, prev, ppu, rom,
      calls, call, frame>>

Byte == 0 .. 255

\* Calls of decodeAndExecute a run makes.
MaxSteps == 4

\* State-changing calls the host makes on Memory, PPU and CPU before the
\* CPU runs.
MaxCalls == 2

\* Frames a run emulates.
MaxFrames == 2

\* Iterations of the instruction loop of one emulateFrame call.
CYCLES_PER_FRAME == 29780

\* Divisor of the scanline test in PPU.executeCycles.
CYCLES_PER_SCANLINE == 113

\* Width on which the bitwise operators are evaluated (2^24).
Wrap == 4096 * 4096

---------------------------------------------------------------------------
\* Bitwise operators on naturals.

RECURSIVE NatAnd(_, _)
NatAnd(a, b) ==
    IF a = 0 \/ b = 0 THEN 0
    ELSE (IF a % 2 = 1 /\ b % 2 = 1 THEN 1 ELSE 0) + 2 * NatAnd(a \div 2, b \div 2)

RECURSIVE NatOr(_, _)
NatOr(a, b) ==
    IF a = 0 THEN b
    ELSE IF b = 0 THEN a
    ELSE (IF a % 2 = 1 \/ b % 2 = 1 THEN 1 ELSE 0) + 2 * NatOr(a \div 2, b \div 2)

RECURSIVE NatXor(_, _)
NatXor(a, b) ==
    IF a = 0 THEN b
    ELSE IF b = 0 THEN a
    ELSE (IF a % 2 # b % 2 THEN 1 ELSE 0) + 2 * NatXor(a \div 2, b \div 2)

\* a & b, a | b, a ^ b of the source, on two's complement residues.  A mask
\* 2^k - 1 keeps the remainder modulo 2^k and a mask 2^k selects bit k; a
\* multiple of 256 or-ed with a byte is their sum.  These cases are computed
\* directly, every other one bit by bit.
And(a, b) ==
    IF b \in {1, 255, 2047, 65535} THEN a % (b + 1)
    ELSE IF b \in {2, 4, 8, 16, 64, 128} THEN ((a \div b) % 2) * b
    ELSE NatAnd(a % Wrap, b % Wrap)

Or(a, b) ==
    IF a >= 0 /\ a < Wrap /\ a % 256 = 0 /\ b >= 0 /\ b < 256 THEN a + b
    ELSE NatOr(a % Wrap, b % Wrap)

Xor(a, b) == NatXor(a % Wrap, b % Wrap)

\* a << 8, a << 1, a >> 1 and a >> 8 of the source (>> is the arithmetic
\* shift: the floor of the quotient).
Shl8(a) == a * 256
Shl1(a) == a * 2
Shr1(a) == a \div 2
Shr8(a) == a \div 256

---------------------------------------------------------------------------
\* Memory: a Uint8Array(0x10000) of zeros, kept as the map of its non-zero
\* cells.

Peek(d, i) == IF i \in DOMAIN d THEN d[i] ELSE 0

Poke(d, i, v) ==
    [a \in ((DOMAIN d) \ {i}) \cup (IF v = 0 THEN {} ELSE {i}) |->
        IF a = i THEN v ELSE d[a]]

\* A bus whose internal RAM repeats every 4 KiB instead of every 2 KiB.
MemIndex_RamMirrorsEvery4K(address) ==
    LET a == address % 65536 IN
    IF a < 8192 THEN And(a, 4095)
    ELSE IF a >= 8192 /\ a < 16384 THEN And(a, 8199)
    ELSE a

\* The cell of Memory.data a bus address selects (the same in read and write).
MemIndex(address) ==
    LET a == address % 65536 IN
    IF a < 8192 THEN And(a, 2047)
    ELSE IF a >= 8192 /\ a < 16384 THEN And(a, 8199)
    ELSE a

MemRead(d, address) == Peek(d, MemIndex(address))

MemWrite(d, address, value) == Poke(d, MemIndex(address), And(value, 255))

---------------------------------------------------------------------------
\* CPU state as a record: the registers, the flags, the memory, and three
\* observations of the instruction being executed: stk, the stack accesses
\* it made, taken, whether a branch assigned PC, and log, the lines it
\* wrote to the console.

NoFlags ==
    [BreakFlag |-> FALSE, CarryFlag |-> FALSE, DecimalModeFlag |-> FALSE,
     InterruptFlag |-> FALSE, NegativeFlag |-> FALSE, OverflowFlag |-> FALSE,
     ZeroFlag |-> FALSE]

getStatusFlags(s) ==
    NatOr(IF s.F.CarryFlag THEN 1 ELSE 0,
    NatOr(IF s.F.ZeroFlag THEN 2 ELSE 0,
    NatOr(IF s.F.InterruptFlag THEN 4 ELSE 0,
    NatOr(IF s.F.DecimalModeFlag THEN 8 ELSE 0,
    NatOr(IF s.F.BreakFlag THEN 16 ELSE 0,
    NatOr(IF s.F.OverflowFlag THEN 64 ELSE 0,
          IF s.F.NegativeFlag THEN 128 ELSE 0))))))

setFlags(s, value) ==
    [s EXCEPT !.F =
        [CarryFlag |-> And(value, 1) # 0,
         ZeroFlag |-> And(value, 2) # 0,
         InterruptFlag |-> And(value, 4) # 0,
         DecimalModeFlag |-> And(value, 8) # 0,
         BreakFlag |-> And(value, 16) # 0,
         OverflowFlag |-> And(value, 64) # 0,
         NegativeFlag |-> And(value, 128) # 0]]

readMemory(s, address) == MemRead(s.data, address)

writeMemory(s, address, value) ==
    [s EXCEPT !.data = MemWrite(s.data, address, value)]

\* Z and N as every load, transfer and logical instruction sets them.
SetZN(s, v) ==
    [s EXCEPT !.F.ZeroFlag = (v = 0), !.F.NegativeFlag = (And(v, 128) # 0)]

---------------------------------------------------------------------------
\* Addressing modes.  Each yields [v |-> what the function returns,
\* s |-> the state with PC advanced].

Absolute(s) ==
    LET lowByte == readMemory(s, s.PC)
        highByte == readMemory(s, s.PC + 1)
    IN [v |-> Or(Shl8(highByte), lowByte), s |-> [s EXCEPT !.PC = s.PC + 2]]

AbsoluteX(s) ==
    LET r == Absolute(s) IN [v |-> And(r.v + r.s.X, 65535), s |-> r.s]

AbsoluteY(s) ==
    LET r == Absolute(s) IN [v |-> And(r.v + r.s.Y, 65535), s |-> r.s]

Accumulator(s) == [v |-> s.A, s |-> s]

Immediate(s) ==
    [v |-> readMemory(s, s.PC), s |-> [s EXCEPT !.PC = s.PC + 1]]

\* (Indirect,X) with the high pointer byte read at zp + 1 unmasked.
IndX_HighByteLeavesPageZero(s) ==
    LET zeroPageAddress == And(readMemory(s, s.PC) + s.X, 255)
        lowByte == readMemory(s, zeroPageAddress)
        highByte == readMemory(s, zeroPageAddress + 1)
    IN [v |-> Or(Shl8(highByte), lowByte), s |-> [s EXCEPT !.PC = s.PC + 1]]

IndX(s) ==
    LET zeroPageAddress == And(readMemory(s, s.PC) + s.X, 255)
        lowByte == readMemory(s, zeroPageAddress)
        highByte == readMemory(s, And(zeroPageAddress + 1, 255))
    IN [v |-> Or(Shl8(highByte), lowByte), s |-> [s EXCEPT !.PC = s.PC + 1]]

IndY(s) ==
    LET zeroPageAddress == readMemory(s, s.PC)
        lowByte == readMemory(s, zeroPageAddress)
        highByte == readMemory(s, And(zeroPageAddress + 1, 255))
        baseAddress == Or(Shl8(highByte), lowByte)
    IN [v |-> And(baseAddress + s.Y, 65535), s |-> [s EXCEPT !.PC = s.PC + 1]]

Indirect(s) ==
    LET r == Absolute(s)
        pointer == r.v
        effectiveLowByte == readMemory(s, pointer)
        effectiveHighByte ==
            readMemory(s, Or(And(pointer, 65280), And(pointer + 1, 255)))
    IN [v |-> Or(Shl8(effectiveHighByte), effectiveLowByte), s |-> r.s]

Relative(s) ==
    LET offset == readMemory(s, s.PC)
        pc == s.PC + 1
    IN [v |-> IF offset < 128 THEN pc + offset ELSE pc + offset - 256,
        s |-> [s EXCEPT !.PC = pc]]

ZeroPage(s) ==
    [v |-> readMemory(s, s.PC), s |-> [s EXCEPT !.PC = s.PC + 1]]

ZeroPageX(s) ==
    [v |-> And(readMemory(s, s.PC) + s.X, 255), s |-> [s EXCEPT !.PC = s.PC + 1]]

ZeroPageY(s) ==
    [v |-> And(readMemory(s, s.PC) + s.Y, 255), s |-> [s EXCEPT !.PC = s.PC + 1]]

---------------------------------------------------------------------------
\* The stack: the source writes or reads 0x0100 + SP and steps SP inline in
\* every stack instruction.  Each access is recorded in stk with the bus
\* address (after Memory's address &= 0xFFFF) and SP before and after it.

Push(s, value) ==
    LET sp == And(s.SP - 1, 255) IN
    [writeMemory(s, 256 + s.SP, value) EXCEPT
        !.SP = sp,
        !.stk = Append(s.stk, [kind |-> "push", addr |-> (256 + s.SP) % 65536,
                               sp0 |-> s.SP, sp1 |-> sp])]

Pull(s) ==
    LET sp == And(s.SP + 1, 255) IN
    [v |-> readMemory(s, 256 + sp),
     s |-> [s EXCEPT
        !.SP = sp,
        !.stk = Append(s.stk, [kind |-> "pull", addr |-> (256 + sp) % 65536,
                               sp0 |-> s.SP, sp1 |-> sp])]]

---------------------------------------------------------------------------
\* Instruction set.  operand is what the addressing mode returned.

\* ADC with the carry out taken at $FF instead of above it.
ADC_CarryOffByOne(s, operand) ==
    LET carry == IF s.F.CarryFlag THEN 1 ELSE 0
        result == s.A + operand + carry
    IN [s EXCEPT
        !.F.CarryFlag = result >= 255,
        !.F.ZeroFlag = And(result, 255) = 0,
        !.F.NegativeFlag = And(result, 128) # 0,
        !.F.OverflowFlag =
            And(And(Xor(s.A, result), Xor(operand, result)), 128) # 0,
        !.A = And(result, 255)]

\* ADC that adds 6 when D is set and the low digits sum past 9.
ADC_DecimalAdjust(s, operand) ==
    LET carry == IF s.F.CarryFlag THEN 1 ELSE 0
        adjust == IF s.F.DecimalModeFlag
                     /\ (s.A % 16) + (operand % 16) + carry > 9
                  THEN 6 ELSE 0
        result == s.A + operand + carry + adjust
    IN [s EXCEPT
        !.F.CarryFlag = result > 255,
        !.F.ZeroFlag = And(result, 255) = 0,
        !.F.NegativeFlag = And(result, 128) # 0,
        !.F.OverflowFlag =
            And(And(Xor(s.A, result), Xor(operand, result)), 128) # 0,
        !.A = And(result, 255)]

ADC(s, operand) ==
    LET carry == IF s.F.CarryFlag THEN 1 ELSE 0
        result == s.A + operand + carry
    IN [s EXCEPT
        !.F.CarryFlag = result > 255,
        !.F.ZeroFlag = And(result, 255) = 0,
        !.F.NegativeFlag = And(result, 128) # 0,
        !.F.OverflowFlag =
            And(And(Xor(s.A, result), Xor(operand, result)), 128) # 0,
        !.A = And(result, 255)]

AND(s, operand) == LET a == And(s.A, operand) IN SetZN([s EXCEPT !.A = a], a)

ASL_A(s) ==
    LET a == And(Shl1(s.A), 255) IN
    SetZN([s EXCEPT !.F.CarryFlag = And(s.A, 128) # 0, !.A = a], a)

ASL(s, address) ==
    LET value == readMemory(s, address)
        shifted == And(Shl1(value), 255)
    IN SetZN([writeMemory(s, address, shifted) EXCEPT
                !.F.CarryFlag = And(value, 128) # 0], shifted)

BranchTo(s, operand) == [s EXCEPT !.PC = operand, !.taken = TRUE]

BCC(s, operand) == IF ~s.F.CarryFlag THEN BranchTo(s, operand) ELSE s
BCS(s, operand) == IF s.F.CarryFlag THEN BranchTo(s, operand) ELSE s
BEQ(s, operand) == IF s.F.ZeroFlag THEN BranchTo(s, operand) ELSE s
BNE(s, operand) == IF ~s.F.ZeroFlag THEN BranchTo(s, operand) ELSE s
BMI(s, operand) == IF s.F.NegativeFlag THEN BranchTo(s, operand) ELSE s
BPL(s, operand) == IF ~s.F.NegativeFlag THEN BranchTo(s, operand) ELSE s
BVS(s, operand) == IF s.F.OverflowFlag THEN BranchTo(s, operand) ELSE s
BVC(s, operand) == IF ~s.F.OverflowFlag THEN BranchTo(s, operand) ELSE s

BIT(s, operand) ==
    LET value == readMemory(s, operand) IN
    [s EXCEPT
        !.F.ZeroFlag = And(s.A, value) = 0,
        !.F.OverflowFlag = And(value, 64) # 0,
        !.F.NegativeFlag = And(value, 128) # 0]

BRK(s) ==
    LET s0 == [s EXCEPT !.PC = s.PC + 1]
        s1 == Push(s0, And(Shr8(s0.PC), 255))
        s2 == Push(s1, And(s0.PC, 255))
        status == Or(getStatusFlags(s2), 16)
        s3 == Push(s2, status)
        lowByte == readMemory(s3, 65534)
        highByte == readMemory(s3, 65535)
    IN [s3 EXCEPT !.F.InterruptFlag = TRUE, !.PC = Or(Shl8(highByte), lowByte)]

CLC(s) == [s EXCEPT !.F.CarryFlag = FALSE]
CLD(s) == [s EXCEPT !.F.DecimalModeFlag = FALSE]
CLI(s) == [s EXCEPT !.F.InterruptFlag = FALSE]
CLV(s) == [s EXCEPT !.F.OverflowFlag = FALSE]

\* A compare whose carry is set only when the register is greater.
Compare_CarryWhenGreater(s, reg, operand) ==
    LET result == reg - operand IN
    [s EXCEPT
        !.F.CarryFlag = reg > operand,
        !.F.ZeroFlag = And(result, 255) = 0,
        !.F.NegativeFlag = And(result, 128) # 0]

\* CMP, CPX and CPY are the same code on A, X and Y.
Compare(s, reg, operand) ==
    LET result == reg - operand IN
    [s EXCEPT
        !.F.CarryFlag = reg >= operand,
        !.F.ZeroFlag = And(result, 255) = 0,
        !.F.NegativeFlag = And(result, 128) # 0]

CMP(s, operand) == Compare(s, s.A, operand)
CPX(s, operand) == Compare(s, s.X, operand)
CPY(s, operand) == Compare(s, s.Y, operand)

DEC(s, address) ==
    LET value == And(readMemory(s, address) - 1, 255) IN
    SetZN(writeMemory(s, address, value), value)

DEX(s) == LET x == And(s.X - 1, 255) IN SetZN([s EXCEPT !.X = x], x)
DEY(s) == LET y == And(s.Y - 1, 255) IN SetZN([s EXCEPT !.Y = y], y)

EOR(s, operand) == LET a == Xor(s.A, operand) IN SetZN([s EXCEPT !.A = a], a)

INC(s, address) ==
    LET value == And(readMemory(s, address) + 1, 255) IN
    SetZN(writeMemory(s, address, value), value)

INX(s) == LET x == And(s.X + 1, 255) IN SetZN([s EXCEPT !.X = x], x)
INY(s) == LET y == And(s.Y + 1, 255) IN SetZN([s EXCEPT !.Y = y], y)

JMP_ABS(s, address) == [s EXCEPT !.PC = address]

JMP_IND(s, address) ==
    LET lowByte == readMemory(s, address)
        highByteAddress == Or(And(address, 65280), And(address + 1, 255))
        highByte == readMemory(s, highByteAddress)
    IN [s EXCEPT !.PC = Or(Shl8(highByte), lowByte)]

JSR(s, address) ==
    LET returnAddress == s.PC - 1
        s1 == Push(s, And(Shr8(returnAddress), 255))
        s2 == Push(s1, And(returnAddress, 255))
    IN [s2 EXCEPT !.PC = address]

LDA(s, operand) == SetZN([s EXCEPT !.A = operand], operand)
LDX(s, operand) == SetZN([s EXCEPT !.X = operand], operand)
LDY(s, operand) == SetZN([s EXCEPT !.Y = operand], operand)

LSR_A(s) ==
    LET a == Shr1(s.A) IN
    [s EXCEPT !.F.CarryFlag = And(s.A, 1) # 0, !.A = a,
              !.F.ZeroFlag = (a = 0), !.F.NegativeFlag = FALSE]

LSR(s, address) ==
    LET value == readMemory(s, address)
        shifted == Shr1(value)
    IN [writeMemory(s, address, shifted) EXCEPT
            !.F.CarryFlag = And(value, 1) # 0,
            !.F.ZeroFlag = (shifted = 0), !.F.NegativeFlag = FALSE]

NOP(s) == s

ORA(s, operand) == LET a == Or(s.A, operand) IN SetZN([s EXCEPT !.A = a], a)

PHA(s) == Push(s, s.A)

PHP(s) == Push(s, Or(getStatusFlags(s), 16))

PLA(s) == LET r == Pull(s) IN SetZN([r.s EXCEPT !.A = r.v], r.v)

PLP(s) == LET r == Pull(s) IN setFlags(r.s, r.v)

ROL_A(s) ==
    LET carry == IF s.F.CarryFlag THEN 1 ELSE 0
        a == And(Or(Shl1(s.A), carry), 255)
    IN SetZN([s EXCEPT !.F.CarryFlag = And(s.A, 128) # 0, !.A = a], a)

ROL(s, address) ==
    LET value == readMemory(s, address)
        carry == IF s.F.CarryFlag THEN 1 ELSE 0
        rotated == And(Or(Shl1(value), carry), 255)
    IN SetZN([writeMemory(s, address, rotated) EXCEPT
                !.F.CarryFlag = And(value, 128) # 0], rotated)

ROR_A(s) ==
    LET carry == IF s.F.CarryFlag THEN 128 ELSE 0
        a == Or(Shr1(s.A), carry)
    IN SetZN([s EXCEPT !.F.CarryFlag = And(s.A, 1) # 0, !.A = a], a)

ROR(s, address) ==
    LET value == readMemory(s, address)
        carry == IF s.F.CarryFlag THEN 128 ELSE 0
        rotated == Or(Shr1(value), carry)
    IN SetZN([writeMemory(s, address, rotated) EXCEPT
                !.F.CarryFlag = And(value, 1) # 0], rotated)

RTI(s) ==
    LET r1 == Pull(s)
        s1 == setFlags(r1.s, r1.v)
        r2 == Pull(s1)
        r3 == Pull(r2.s)
    IN [r3.s EXCEPT !.PC = Or(Shl8(r3.v), r2.v)]

RTS(s) ==
    LET r1 == Pull(s)
        r2 == Pull(r1.s)
    IN [r2.s EXCEPT !.PC = Or(Shl8(r2.v), r1.v) + 1]

\* SBC that borrows when the carry is set instead of when it is clear.
SBC_BorrowInverted(s, operand) ==
    LET carry == IF s.F.CarryFlag THEN 1 ELSE 0
        temp == s.A - operand - carry
        result == And(temp, 255)
    IN [s EXCEPT
        !.F.OverflowFlag =
            (And(Xor(s.A, temp), 128) # 0) /\ (And(Xor(s.A, operand), 128) # 0),
        !.F.CarryFlag = temp >= 0,
        !.F.ZeroFlag = (result = 0),
        !.F.NegativeFlag = And(result, 128) # 0,
        !.A = result]

\* SBC whose overflow test compares the operand, not A, with the result.
SBC_OverflowFromOperand(s, operand) ==
    LET carry == IF s.F.CarryFlag THEN 0 ELSE 1
        temp == s.A - operand - carry
        result == And(temp, 255)
    IN [s EXCEPT
        !.F.OverflowFlag =
            (And(Xor(operand, temp), 128) # 0) /\ (And(Xor(s.A, operand), 128) # 0),
        !.F.CarryFlag = temp >= 0,
        !.F.ZeroFlag = (result = 0),
        !.F.NegativeFlag = And(result, 128) # 0,
        !.A = result]

SBC(s, operand) ==
    LET carry == IF s.F.CarryFlag THEN 0 ELSE 1
        temp == s.A - operand - carry
        result == And(temp, 255)
    IN [s EXCEPT
        !.F.OverflowFlag =
            (And(Xor(s.A, temp), 128) # 0) /\ (And(Xor(s.A, operand), 128) # 0),
        !.F.CarryFlag = temp >= 0,
        !.F.ZeroFlag = (result = 0),
        !.F.NegativeFlag = And(result, 128) # 0,
        !.A = result]

SEC(s) == [s EXCEPT !.F.CarryFlag = TRUE]
SED(s) == [s EXCEPT !.F.DecimalModeFlag = TRUE]
SEI(s) == [s EXCEPT !.F.InterruptFlag = TRUE]

STA(s, address) == writeMemory(s, address, s.A)
STX(s, address) == writeMemory(s, address, s.X)
STY(s, address) == writeMemory(s, address, s.Y)

TAX(s) == SetZN([s EXCEPT !.X = s.A], s.A)
TAY(s) == SetZN([s EXCEPT !.Y = s.A], s.A)
TSX(s) == SetZN([s EXCEPT !.X = s.SP], s.SP)
TXA(s) == SetZN([s EXCEPT !.A = s.X], s.X)
TXS(s) == [s EXCEPT !.SP = s.X]
TYA(s) == SetZN([s EXCEPT !.A = s.Y], s.Y)

---------------------------------------------------------------------------
\* The switch of decodeAndExecute as a table: for each opcode byte the
\* instruction_set function the case calls and the addressing mode it takes
\* its operand from ("None": the case assigns no operand; "Accumulator": the
\* case assigns operand = CPU.A).  Entry op + 1 is opcode op.  A byte with no
\* case reaches the default branch ("UNRECOGNIZED").  Case 0x6A passes the
\* operand left by an earlier case to ROL_A, which takes no argument.

OpTable == <<
    <<"BRK", "None">>, <<"LSR", "IndX">>, <<"UNRECOGNIZED", "None">>, <<"UNRECOGNIZED", "None">>,  \* $00-$03
    <<"UNRECOGNIZED", "None">>, <<"LSR", "ZeroPage">>, <<"ASL", "ZeroPage">>, <<"UNRECOGNIZED", "None">>,  \* $04-$07
    <<"PHP", "None">>, <<"LSR", "Immediate">>, <<"ASL_A", "Accumulator">>, <<"UNRECOGNIZED", "None">>,  \* $08-$0B
    <<"UNRECOGNIZED", "None">>, <<"LSR", "Absolute">>, <<"ASL", "Absolute">>, <<"UNRECOGNIZED", "None">>,  \* $0C-$0F
    <<"BPL", "Relative">>, <<"LSR", "IndY">>, <<"UNRECOGNIZED", "None">>, <<"UNRECOGNIZED", "None">>,  \* $10-$13
    <<"UNRECOGNIZED", "None">>, <<"LSR", "ZeroPageX">>, <<"ASL", "ZeroPageX">>, <<"UNRECOGNIZED", "None">>,  \* $14-$17
    <<"CLC", "None">>, <<"LSR", "AbsoluteY">>, <<"UNRECOGNIZED", "None">>, <<"UNRECOGNIZED", "None">>,  \* $18-$1B
    <<"UNRECOGNIZED", "None">>, <<"LSR", "AbsoluteX">>, <<"ASL", "AbsoluteX">>, <<"UNRECOGNIZED", "None">>,  \* $1C-$1F
    <<"JSR", "Absolute">>, <<"AND", "IndX">>, <<"UNRECOGNIZED", "None">>, <<"UNRECOGNIZED", "None">>,  \* $20-$23
    <<"BIT", "ZeroPage">>, <<"AND", "ZeroPage">>, <<"ROL", "ZeroPage">>, <<"UNRECOGNIZED", "None">>,  \* $24-$27
    <<"PLP", "None">>, <<"AND", "Immediate">>, <<"ROL_A", "Accumulator">>, <<"UNRECOGNIZED", "None">>,  \* $28-$2B
    <<"BIT", "Absolute">>, <<"AND", "Absolute">>, <<"ROL", "Absolute">>, <<"UNRECOGNIZED", "None">>,  \* $2C-$2F
    <<"BMI", "Relative">>, <<"AND", "IndY">>, <<"UNRECOGNIZED", "None">>, <<"UNRECOGNIZED", "None">>,  \* $30-$33
    <<"UNRECOGNIZED", "None">>, <<"AND", "ZeroPageX">>, <<"ROL", "ZeroPageX">>, <<"UNRECOGNIZED", "None">>,  \* $34-$37
    <<"SEC", "None">>, <<"AND", "AbsoluteY">>, <<"UNRECOGNIZED", "None">>, <<"UNRECOGNIZED", "None">>,  \* $38-$3B
    <<"UNRECOGNIZED", "None">>, <<"AND", "AbsoluteX">>, <<"ROL", "AbsoluteX">>, <<"UNRECOGNIZED", "None">>,  \* $3C-$3F
    <<"RTI", "None">>, <<"EOR", "IndX">>, <<"UNRECOGNIZED", "None">>, <<"UNRECOGNIZED", "None">>,  \* $40-$43
    <<"UNRECOGNIZED", "None">>, <<"EOR", "ZeroPage">>, <<"LSR", "ZeroPage">>, <<"UNRECOGNIZED", "None">>,  \* $44-$47
    <<"PHA", "None">>, <<"EOR", "Immediate">>, <<"LSR_A", "Accumulator">>, <<"UNRECOGNIZED", "None">>,  \* $48-$4B
    <<"JMP_ABS", "Absolute">>, <<"EOR", "Absolute">>, <<"LSR", "AbsoluteX">>, <<"UNRECOGNIZED", "None">>,  \* $4C-$4F
    <<"BVS", "Relative">>, <<"EOR", "IndY">>, <<"UNRECOGNIZED", "None">>, <<"UNRECOGNIZED", "None">>,  \* $50-$53
    <<"UNRECOGNIZED", "None">>, <<"EOR", "ZeroPageX">>, <<"LSR", "ZeroPageX">>, <<"UNRECOGNIZED", "None">>,  \* $54-$57
    <<"CLI", "None">>, <<"EOR", "AbsoluteY">>, <<"UNRECOGNIZED", "None">>, <<"UNRECOGNIZED", "None">>,  \* $58-$5B
    <<"UNRECOGNIZED", "None">>, <<"EOR", "AbsoluteX">>, <<"LSR", "AbsoluteX">>, <<"UNRECOGNIZED", "None">>,  \* $5C-$5F
    <<"RTS", "None">>, <<"ADC", "IndX">>, <<"UNRECOGNIZED", "None">>, <<"UNRECOGNIZED", "None">>,  \* $60-$63
    <<"UNRECOGNIZED", "None">>, <<"ADC", "ZeroPage">>, <<"ROL", "ZeroPage">>, <<"UNRECOGNIZED", "None">>,  \* $64-$67
    <<"PLA", "None">>, <<"ADC", "Immediate">>, <<"ROL_A", "None">>, <<"UNRECOGNIZED", "None">>,  \* $68-$6B
    <<"JMP_IND", "Indirect">>, <<"ADC", "Absolute">>, <<"ROL", "Absolute">>, <<"UNRECOGNIZED", "None">>,  \* $6C-$6F
    <<"BVS", "Relative">>, <<"ADC", "IndY">>, <<"UNRECOGNIZED", "None">>, <<"UNRECOGNIZED", "None">>,  \* $70-$73
    <<"UNRECOGNIZED", "None">>, <<"ADC", "ZeroPageX">>, <<"ROL", "ZeroPageX">>, <<"UNRECOGNIZED", "None">>,  \* $74-$77
    <<"SEI", "None">>, <<"ADC", "AbsoluteY">>, <<"UNRECOGNIZED", "None">>, <<"UNRECOGNIZED", "None">>,  \* $78-$7B
    <<"UNRECOGNIZED", "None">>, <<"ADC", "AbsoluteX">>, <<"ROL", "AbsoluteX">>, <<"UNRECOGNIZED", "None">>,  \* $7C-$7F
    <<"UNRECOGNIZED", "None">>, <<"STA", "IndX">>, <<"UNRECOGNIZED", "None">>, <<"UNRECOGNIZED", "None">>,  \* $80-$83
    <<"STY", "ZeroPage">>, <<"STA", "ZeroPage">>, <<"STX", "ZeroPage">>, <<"UNRECOGNIZED", "None">>,  \* $84-$87
    <<"DEY", "None">>, <<"UNRECOGNIZED", "None">>, <<"TXA", "None">>, <<"UNRECOGNIZED", "None">>,  \* $88-$8B
    <<"STY", "Absolute">>, <<"STA", "Absolute">>, <<"STX", "Absolute">>, <<"UNRECOGNIZED", "None">>,  \* $8C-$8F
    <<"BCC", "Relative">>, <<"STA", "IndY">>, <<"UNRECOGNIZED", "None">>, <<"UNRECOGNIZED", "None">>,  \* $90-$93
    <<"STY", "ZeroPageX">>, <<"STA", "ZeroPageX">>, <<"STX", "ZeroPageY">>, <<"UNRECOGNIZED", "None">>,  \* $94-$97
    <<"TYA", "None">>, <<"STA", "AbsoluteY">>, <<"TXS", "None">>, <<"UNRECOGNIZED", "None">>,  \* $98-$9B
    <<"UNRECOGNIZED", "None">>, <<"STA", "AbsoluteX">>, <<"UNRECOGNIZED", "None">>, <<"UNRECOGNIZED", "None">>,  \* $9C-$9F
    <<"LDY", "Immediate">>, <<"LDA", "IndX">>, <<"LDX", "Immediate">>, <<"UNRECOGNIZED", "None">>,  \* $A0-$A3
    <<"LDY", "ZeroPage">>, <<"LDA", "ZeroPage">>, <<"LDX", "ZeroPage">>, <<"UNRECOGNIZED", "None">>,  \* $A4-$A7
    <<"TAY", "None">>, <<"LDA", "Immediate">>, <<"TAX", "None">>, <<"UNRECOGNIZED", "None">>,  \* $A8-$AB
    <<"LDY", "Absolute">>, <<"LDA", "Absolute">>, <<"LDX", "Absolute">>, <<"UNRECOGNIZED", "None">>,  \* $AC-$AF
    <<"BCS", "Relative">>, <<"LDA", "IndY">>, <<"UNRECOGNIZED", "None">>, <<"UNRECOGNIZED", "None">>,  \* $B0-$B3
    <<"LDY", "ZeroPageX">>, <<"LDA", "ZeroPageX">>, <<"LDX", "ZeroPageY">>, <<"UNRECOGNIZED", "None">>,  \* $B4-$B7
    <<"CLV", "None">>, <<"LDA", "AbsoluteY">>, <<"TSX", "None">>, <<"UNRECOGNIZED", "None">>,  \* $B8-$BB
    <<"LDY", "AbsoluteX">>, <<"LDA", "AbsoluteX">>, <<"LDX", "AbsoluteY">>, <<"UNRECOGNIZED", "None">>,  \* $BC-$BF
    <<"CPY", "Immediate">>, <<"CMP", "IndX">>, <<"UNRECOGNIZED", "None">>, <<"UNRECOGNIZED", "None">>,  \* $C0-$C3
    <<"CPY", "ZeroPage">>, <<"CMP", "ZeroPage">>, <<"DEC", "ZeroPage">>, <<"UNRECOGNIZED", "None">>,  \* $C4-$C7
    <<"INY", "None">>, <<"CMP", "Immediate">>, <<"DEX", "None">>, <<"UNRECOGNIZED", "None">>,  \* $C8-$CB
    <<"CPY", "Absolute">>, <<"CMP", "Absolute">>, <<"DEC", "Absolute">>, <<"UNRECOGNIZED", "None">>,  \* $CC-$CF
    <<"BNE", "Relative">>, <<"CMP", "IndY">>, <<"UNRECOGNIZED", "None">>, <<"UNRECOGNIZED", "None">>,  \* $D0-$D3
    <<"UNRECOGNIZED", "None">>, <<"CMP", "ZeroPageX">>, <<"DEC", "ZeroPageX">>, <<"UNRECOGNIZED", "None">>,  \* $D4-$D7
    <<"CLD", "None">>, <<"CMP", "AbsoluteY">>, <<"UNRECOGNIZED", "None">>, <<"UNRECOGNIZED", "None">>,  \* $D8-$DB
    <<"UNRECOGNIZED", "None">>, <<"CMP", "AbsoluteX">>, <<"DEC", "AbsoluteX">>, <<"UNRECOGNIZED", "None">>,  \* $DC-$DF
    <<"CPX", "Immediate">>, <<"SBC", "IndX">>, <<"UNRECOGNIZED", "None">>, <<"UNRECOGNIZED", "None">>,  \* $E0-$E3
    <<"CPX", "ZeroPage">>, <<"SBC", "ZeroPage">>, <<"INC", "ZeroPage">>, <<"UNRECOGNIZED", "None">>,  \* $E4-$E7
    <<"INX", "None">>, <<"SBC", "Immediate">>, <<"NOP", "None">>, <<"UNRECOGNIZED", "None">>,  \* $E8-$EB
    <<"CPX", "Absolute">>, <<"SBC", "Absolute">>, <<"INC", "Absolute">>, <<"UNRECOGNIZED", "None">>,  \* $EC-$EF
    <<"BEQ", "Relative">>, <<"SBC", "IndY">>, <<"UNRECOGNIZED", "None">>, <<"UNRECOGNIZED", "None">>,  \* $F0-$F3
    <<"UNRECOGNIZED", "None">>, <<"SBC", "ZeroPageX">>, <<"INC", "ZeroPageX">>, <<"UNRECOGNIZED", "None">>,  \* $F4-$F7
    <<"SED", "None">>, <<"SBC", "AbsoluteY">>, <<"UNRECOGNIZED", "None">>, <<"UNRECOGNIZED", "None">>,  \* $F8-$FB
    <<"UNRECOGNIZED", "None">>, <<"SBC", "AbsoluteX">>, <<"INC", "AbsoluteX">>, <<"UNRECOGNIZED", "None">>  \* $FC-$FF
>>

\* A switch with one more case: byte $02 runs INX.
InstrOf_Byte02RunsINX(opcode) ==
    IF opcode = 2 THEN "INX" ELSE OpTable[opcode + 1][1]

InstrOf(opcode) == OpTable[opcode + 1][1]
ModeOf(opcode) == OpTable[opcode + 1][2]

Resolve(mode, s) ==
    CASE mode = "Absolute" -> Absolute(s)
      [] mode = "AbsoluteX" -> AbsoluteX(s)
      [] mode = "AbsoluteY" -> AbsoluteY(s)
      [] mode = "Accumulator" -> Accumulator(s)
      [] mode = "Immediate" -> Immediate(s)
      [] mode = "IndX" -> IndX(s)
      [] mode = "IndY" -> IndY(s)
      [] mode = "Indirect" -> Indirect(s)
      [] mode = "Relative" -> Relative(s)
      [] mode = "ZeroPage" -> ZeroPage(s)
      [] mode = "ZeroPageX" -> ZeroPageX(s)
      [] mode = "ZeroPageY" -> ZeroPageY(s)
      [] OTHER -> [v |-> 0, s |-> s]

Perform(ins, s, operand) ==
    CASE ins = "ADC" -> ADC(s, operand)
      [] ins = "AND" -> AND(s, operand)
      [] ins = "ASL" -> ASL(s, operand)
      [] ins = "ASL_A" -> ASL_A(s)
      [] ins = "BCC" -> BCC(s, operand)
      [] ins = "BCS" -> BCS(s, operand)
      [] ins = "BEQ" -> BEQ(s, operand)
      [] ins = "BIT" -> BIT(s, operand)
      [] ins = "BMI" -> BMI(s, operand)
      [] ins = "BNE" -> BNE(s, operand)
      [] ins = "BPL" -> BPL(s, operand)
      [] ins = "BRK" -> BRK(s)
      [] ins = "BVC" -> BVC(s, operand)
      [] ins = "BVS" -> BVS(s, operand)
      [] ins = "CLC" -> CLC(s)
      [] ins = "CLD" -> CLD(s)
      [] ins = "CLI" -> CLI(s)
      [] ins = "CLV" -> CLV(s)
      [] ins = "CMP" -> CMP(s, operand)
      [] ins = "CPX" -> CPX(s, operand)
      [] ins = "CPY" -> CPY(s, operand)
      [] ins = "DEC" -> DEC(s, operand)
      [] ins = "DEX" -> DEX(s)
      [] ins = "DEY" -> DEY(s)
      [] ins = "EOR" -> EOR(s, operand)
      [] ins = "INC" -> INC(s, operand)
      [] ins = "INX" -> INX(s)
      [] ins = "INY" -> INY(s)
      [] ins = "JMP_ABS" -> JMP_ABS(s, operand)
      [] ins = "JMP_IND" -> JMP_IND(s, operand)
      [] ins = "JSR" -> JSR(s, operand)
      [] ins = "LDA" -> LDA(s, operand)
      [] ins = "LDX" -> LDX(s, operand)
      [] ins = "LDY" -> LDY(s, operand)
      [] ins = "LSR" -> LSR(s, operand)
      [] ins = "LSR_A" -> LSR_A(s)
      [] ins = "NOP" -> NOP(s)
      [] ins = "ORA" -> ORA(s, operand)
      [] ins = "PHA" -> PHA(s)
      [] ins = "PHP" -> PHP(s)
      [] ins = "PLA" -> PLA(s)
      [] ins = "PLP" -> PLP(s)
      [] ins = "ROL" -> ROL(s, operand)
      [] ins = "ROL_A" -> ROL_A(s)
      [] ins = "ROR" -> ROR(s, operand)
      [] ins = "ROR_A" -> ROR_A(s)
      [] ins = "RTI" -> RTI(s)
      [] ins = "RTS" -> RTS(s)
      [] ins = "SBC" -> SBC(s, operand)
      [] ins = "SEC" -> SEC(s)
      [] ins = "SED" -> SED(s)
      [] ins = "SEI" -> SEI(s)
      [] ins = "STA" -> STA(s, operand)
      [] ins = "STX" -> STX(s, operand)
      [] ins = "STY" -> STY(s, operand)
      [] ins = "TAX" -> TAX(s)
      [] ins = "TAY" -> TAY(s)
      [] ins = "TSX" -> TSX(s)
      [] ins = "TXA" -> TXA(s)
      [] ins = "TXS" -> TXS(s)
      [] ins = "TYA" -> TYA(s)
      [] OTHER -> [s EXCEPT !.log = Append(s.log, "[UNRECOGNIZED]")]

\* CPU.decodeAndExecute on a state record.
Execute(s) ==
    LET opcode == readMemory(s, s.PC)
        s1 == [s EXCEPT !.PC = s.PC + 1]
        r == Resolve(ModeOf(opcode), s1)
    IN Perform(InstrOf(opcode), r.s, r.v)

---------------------------------------------------------------------------
\* CPU.reset assigns the five registers; it leaves the flags and the memory
\* alone and reads no vector.
CPU_reset(s) ==
    [s EXCEPT !.A = 0, !.X = 0, !.Y = 0, !.PC = 32768, !.SP = 253]

---------------------------------------------------------------------------
\* The PPU object: its register fields and the scanline counter.

PPU0 ==
    [ctrl |-> 0, mask |-> 0, status |-> 0, oamAddr |-> 0, oamData |-> 0,
     scroll |-> 0, addr |-> 0, data |-> 0, currentScanline |-> 0]

PPU_reset(p) ==
    [p EXCEPT !.ctrl = 0, !.mask = 0, !.status = 0, !.oamAddr = 0,
              !.oamData = 0, !.scroll = 0, !.addr = 0, !.data = 0,
              !.currentScanline = 0]

\* PPU.writeRegister: a switch on the exact address; $2002, $4014 and every
\* other address change nothing.
writeRegister(p, address, value) ==
    IF address = 8192 THEN [p EXCEPT !.ctrl = value]
    ELSE IF address = 8193 THEN [p EXCEPT !.mask = value]
    ELSE IF address = 8195 THEN [p EXCEPT !.oamAddr = value]
    ELSE IF address = 8196 THEN [p EXCEPT !.oamData = value]
    ELSE IF address = 8197 THEN [p EXCEPT !.scroll = value]
    ELSE IF address = 8198 THEN [p EXCEPT !.addr = value]
    ELSE IF address = 8199 THEN [p EXCEPT !.data = value]
    ELSE p

\* PPU.readRegister: the value returned (v) and the PPU afterwards (p); no
\* case assigns a field.
readRegister(p, address) ==
    [v |-> IF address = 8194 THEN p.status
           ELSE IF address = 8196 THEN p.oamData
           ELSE IF address = 8199 THEN p.data
           ELSE 0,
     p |-> p]

\* PPU.executeCycles(cycles): the loop runs i = 0 .. cycles-1 and bumps
\* currentScanline whenever i % CYCLES_PER_SCANLINE = 0, that is once for
\* every started block of 113 iterations; nothing resets the counter.
executeCycles(p, cycles) ==
    [p EXCEPT !.currentScanline =
        @ + (IF cycles <= 0 THEN 0
             ELSE (cycles + CYCLES_PER_SCANLINE - 1) \div CYCLES_PER_SCANLINE)]

---------------------------------------------------------------------------
\* loadRom.  A ROM file f is kept as: magic, whether its first four bytes are
\* 'N', 'E', 'S', $1A; prgBanks, its byte 4; mapper, the mapper number held
\* in the high nibbles of its bytes 6 and 7; length, its size in bytes; prg,
\* the non-zero bytes that follow the 16-byte header, by offset.  A byte
\* past the end of the file reads as undefined, which Memory.write stores
\* as 0.  loadRom reads neither the mapper number nor the length.

PrgRomSize(f) == 16384 * f.prgBanks

\* A copy loop that does not stop at 0x10000: the address wraps to $0000.
LoadPrg_WrapsPastTop(d, f) ==
    LET n == PrgRomSize(f)
        offset(a) == (a - 32768) % 65536
        kept == {a \in DOMAIN d : offset(a) >= n}
        new == {(32768 + j) % 65536 : j \in {i \in DOMAIN f.prg : i < n}}
    IN [a \in kept \cup new |-> IF a \in new THEN f.prg[offset(a)] ELSE d[a]]

\* The copy loop: Memory.write(0x8000 + i, romBuffer[16 + i]) for every
\* i < prgRomSize, stopping when the address reaches 0x10000.
LoadPrg(d, f) ==
    LET n == IF PrgRomSize(f) < 32768 THEN PrgRomSize(f) ELSE 32768
        kept == {a \in DOMAIN d : a < 32768 \/ a >= 32768 + n}
        new == {32768 + i : i \in {j \in DOMAIN f.prg : j < n}}
    IN [a \in kept \cup new |-> IF a \in new THEN f.prg[a - 32768] ELSE d[a]]

\* The message of the signature check.
InvalidRom == "Invalid NES ROM file."

loadRom_ResetsBeforeSignatureCheck(s, f) ==
    IF ~f.magic THEN CPU_reset([s EXCEPT !.log = Append(@, InvalidRom)])
    ELSE CPU_reset([s EXCEPT !.data = LoadPrg(s.data, f)])

\* A file with a wrong signature is reported and rejected before anything is
\* written and before the reset.
loadRom(s, f) ==
    IF ~f.magic THEN [s EXCEPT !.log = Append(@, InvalidRom)]
    ELSE CPU_reset([s EXCEPT !.data = LoadPrg(s.data, f)])

---------------------------------------------------------------------------
\* The machine: the CPU, Memory and PPU objects, and the host that loads a
\* program or a ROM and calls decodeAndExecute (test_program, the ADC
\* example, main).

\* The state record of the current state, with empty observations.
Cur ==
    [A |-> A, X |-> X, Y |-> Y, PC |-> PC, SP |-> SP, F |-> Flags,
     data |-> data, stk |-> <<>>, taken |-> FALSE, log |-> <<>>]

\* What the last decodeAndExecute call saw: the opcode it fetched (-1: no
\* call yet), the state it started from, and its observations.
NoCall ==
    [op |-> -1, A |-> 0, X |-> 0, Y |-> 0, PC |-> 0, SP |-> 0, F |-> NoFlags,
     data |-> <<>>, stk |-> <<>>, taken |-> FALSE, log |-> <<>>]

\* No file.
NoFile ==
    [magic |-> FALSE, prgBanks |-> 0, mapper |-> 0, length |-> 0, prg |-> <<>>]

\* What the last call the host made on Memory, PPU or CPU was: the function,
\* its arguments, the value it returned and the memory it started from; for
\* loadRom, the file it was given and what it wrote to the console.
NoHostCall ==
    [fn |-> "none", address |-> 0, value |-> 0, ret |-> 0, data |-> <<>>,
     file |-> NoFile, log |-> <<>>]

HostCall(fn, address, value, ret) ==
    [fn |-> fn, address |-> address, value |-> value, ret |-> ret,
     data |-> data, file |-> NoFile, log |-> <<>>]

\* No ROM loaded.
NoRom == [loaded |-> FALSE, image |-> <<>>]

\* The frame loop: at, where control stands ("none": no emulateFrame call is
\* running; "cpu": at the loop head; "ppu": in the inner loop; "end": past
\* the loop); the locals cpuCycles, ppuCycles and i; the argument
\* limitCycles ({} for null, {n} for n); the global frameCounter; pending,
\* the number of setTimeout callbacks not yet run; executed, the number of
\* decodeAndExecute calls the running emulateFrame call has made.
NoFrame ==
    [at |-> "none", cpuCycles |-> 0, ppuCycles |-> 0, i |-> 0,
     limitCycles |-> {}, frameCounter |-> 0, pending |-> 0, executed |-> 0]

\* Power-on: the object literals of Memory, CPU and PPU.
Init ==
    /\ A = 0
    /\ X = 0
    /\ Y = 0
    /\ PC = 32768
    /\ SP = 253
    /\ Flags = NoFlags
    /\ data = <<>>
    /\ phase = "load"
    /\ steps = 0
    /\ last = NoCall
    /\ prev = NoCall
    /\ ppu = PPU0
    /\ rom = NoRom
    /\ calls = 0
    /\ call = NoHostCall
    /\ frame = NoFrame

\* Memory.write of the bytes of p at base, base + 1, ...
RECURSIVE WriteBytes(_, _, _)
WriteBytes(d, base, p) ==
    IF p = <<>> THEN d
    ELSE WriteBytes(MemWrite(d, base, Head(p)), base + 1, Tail(p))

\* The host writes program p into memory at base and sets CPU.PC to base.
Load(p, base) ==
    /\ data' = WriteBytes(data, base, p)
    /\ PC' = base
    /\ phase' = "run"
    /\ UNCHANGED <<A, X, Y, SP, Flags, steps, last, prev, ppu, rom, calls, call,
                   frame>>

\* One call of CPU.decodeAndExecute.  The result record t is bound once and
\* copied into the registers, the flags and the memory; last keeps the opcode
\* fetched, the state the call started from and what the call observed, and
\* prev keeps the same of the call before.
Step ==
    /\ \E t \in {Execute(Cur)} :
        /\ A' = t.A
        /\ X' = t.X
        /\ Y' = t.Y
        /\ PC' = t.PC
        /\ SP' = t.SP
        /\ Flags' = t.F
        /\ data' = t.data
        /\ last' = [op |-> readMemory(Cur, PC), A |-> A, X |-> X, Y |-> Y,
                    PC |-> PC, SP |-> SP, F |-> Flags, data |-> data,
                    stk |-> t.stk, taken |-> t.taken, log |-> t.log]
    /\ prev' = last
    /\ call' = NoHostCall

\* The host calls decodeAndExecute, at most MaxSteps times.
DecodeAndExecute ==
    /\ phase = "run"
    /\ steps < MaxSteps
    /\ Step
    /\ steps' = steps + 1
    /\ UNCHANGED <<phase, ppu, rom, calls, frame>>

\* Operand bytes an instruction of the given addressing mode carries.
OperandLength(mode) ==
    IF mode \in {"Absolute", "AbsoluteX", "AbsoluteY", "Indirect"} THEN 2
    ELSE IF mode \in {"None", "Accumulator"} THEN 0
    ELSE 1

\* Operand bytes the programs are built from.
OperandLo == {0, 3, 128, 255}
OperandHi == {0, 3}

\* Every opcode byte with every operand drawn from OperandLo and OperandHi.
Instructions ==
    UNION { LET n == OperandLength(ModeOf(op)) IN
            IF n = 0 THEN {<<op>>}
            ELSE IF n = 1 THEN {<<op, lo>> : lo \in OperandLo}
            ELSE {<<op, lo, hi>> : lo \in OperandLo, hi \in OperandHi}
          : op \in Byte }

\* What runs before the instruction under test: nothing, SEC, LDA #1,
\* LDA #$80, SEC; LDA #5, LDX $0300; TXS.
Prologues ==
    { <<>>, <<56>>, <<169, 1>>, <<169, 128>>, <<56, 169, 5>>,
      <<174, 0, 3, 154>> }

\* Two-instruction bodies: PHA; PLA and PHP; PLP.
Pairs == { <<72, 104>>, <<8, 40>> }

Programs ==
    { pre \o ins : pre \in Prologues, ins \in Instructions \cup Pairs }

Bases == {0, 32768}

\* JSR to the byte after its own operand, where an RTS stands: the program
\* depends on where it is loaded.
CallReturn(base) ==
    { LET target == base + Len(pre) + 3 IN
      pre \o <<32, target % 256, target \div 256, 96>> : pre \in Prologues }

LoadProgram ==
    /\ phase = "load"
    /\ \E base \in Bases :
        \E p \in Programs \cup CallReturn(base) : Load(p, base)

Next == LoadProgram \/ DecodeAndExecute

Spec == Init /\ [][Next]_vars

\* Arithmetic on every accumulator, operand and carry: CLC or SEC; LDA #a;
\* ADC #m or SBC #m, at address 0 as in test_program.
LoadArith ==
    /\ phase = "load"
    /\ \E c \in {24, 56}, a \in Byte, op \in {105, 233}, m \in Byte :
        Load(<<c, 169, a, op, m>>, 0)

NextArith == LoadArith \/ DecodeAndExecute

SpecArith == Init /\ [][NextArith]_vars

\* The same arithmetic in decimal mode: SED, or SEC; SED, then LDA #a and
\* ADC #m or SBC #m.
LoadDecimal ==
    /\ phase = "load"
    /\ \E pre \in {<<248>>, <<56, 248>>}, a \in Byte, op \in {105, 233},
          m \in Byte :
        Load(pre \o <<169, a, op, m>>, 0)

NextDecimal == LoadDecimal \/ DecodeAndExecute

SpecDecimal == Init /\ [][NextDecimal]_vars

\* Compares of every register value with every operand: LDA #r; CMP #m,
\* LDX #r; CPX #m and LDY #r; CPY #m.
LoadCompare ==
    /\ phase = "load"
    /\ \E ops \in {<<169, 201>>, <<162, 224>>, <<160, 192>>}, r \in Byte,
          m \in Byte :
        Load(<<ops[1], r, ops[2], m>>, 0)

NextCompare == LoadCompare \/ DecodeAndExecute

SpecCompare == Init /\ [][NextCompare]_vars

\* Zero-page indexing.  The opcodes of the four modes that index through
\* page zero, and the five stores among them (STA (n,X), STA (n),Y,
\* STY n,X, STA n,X, STX n,Y).
ZeroPageIndexedModes == {"ZeroPageX", "ZeroPageY", "IndX", "IndY"}

ZeroPageIndexedOpcodes == {op \in Byte : ModeOf(op) \in ZeroPageIndexedModes}

ZeroPageIndexedStores == {129, 145, 148, 149, 150}

\* Index values every opcode is run with; STA (n,X), STA n,X and STX n,Y,
\* one store for each way the index enters a page-zero address, are run
\* with all 256.
IndexVals == {0, 1, 2, 127, 128, 254, 255}

SweptStores == {129, 149, 150}

\* Page zero as the host fills it: pointer bytes at both ends and in the
\* middle, and a byte at $0100, just past the page.
ZeroPageImage(d) ==
    WriteBytes(WriteBytes(WriteBytes(d, 0, <<3, 4>>), 127, <<5, 6, 7>>),
               254, <<8, 16, 85>>)

\* LDA #$AA; LDX #i or LDY #i, whichever register the mode indexes with;
\* then the opcode with operand byte o.  The program stands at $0200.
IndexedProgram(op, i, o) ==
    <<169, 170, IF ModeOf(op) \in {"ZeroPageX", "IndX"} THEN 162 ELSE 160, i,
      op, o>>

LoadZeroPage ==
    /\ phase = "load"
    /\ \E op \in ZeroPageIndexedOpcodes, o \in Byte :
        \E i \in IF op \in SweptStores THEN Byte ELSE IndexVals :
            /\ data' = WriteBytes(ZeroPageImage(data), 512,
                                  IndexedProgram(op, i, o))
            /\ PC' = 512
    /\ phase' = "run"
    /\ UNCHANGED <<A, X, Y, SP, Flags, steps, last, prev, ppu, rom, calls, call,
                   frame>>

NextZeroPage == LoadZeroPage \/ DecodeAndExecute

SpecZeroPage == Init /\ [][NextZeroPage]_vars

\* LSR absolute after an index load: LDX #x; LSR $00lo at $0000, so that the
\* byte shifted is one of the first eight bytes of memory, five of them the
\* program's own.
LoadShift ==
    /\ phase = "load"
    /\ \E x \in Byte, lo \in 0 .. 7 : Load(<<162, x, 78, lo, 0>>, 0)

NextShift == LoadShift \/ DecodeAndExecute

SpecShift == Init /\ [][NextShift]_vars

\* BRK into a handler that returns at once.  What runs before the BRK:
\* nothing; LDX #s; TXS for every s; SEC; SED; SEI; SEC; LDA #0; SEC;
\* LDA #$7F; ADC #1 (N and V set); and LDX $0300; TXS.
InterruptPrologues ==
    { <<>>, <<56, 248>>, <<120, 56>>, <<169, 0, 56>>, <<169, 127, 105, 1>>,
      <<174, 0, 3, 154>> }
    \cup { <<162, s, 154>> : s \in Byte }

\* The host writes the program at $0200, an RTI at $0300 and the IRQ/BRK
\* vector $0300 at $FFFE/$FFFF.
LoadInterrupt ==
    /\ phase = "load"
    /\ \E pre \in InterruptPrologues :
        /\ data' = WriteBytes(WriteBytes(WriteBytes(data, 512, pre \o <<0>>),
                                         768, <<64>>),
                              65534, <<0, 3>>)
        /\ PC' = 512
    /\ phase' = "run"
    /\ UNCHANGED <<A, X, Y, SP, Flags, steps, last, prev, ppu, rom, calls, call,
                   frame>>

NextInterrupt == LoadInterrupt \/ DecodeAndExecute

SpecInterrupt == Init /\ [][NextInterrupt]_vars

---------------------------------------------------------------------------
\* Calls the host makes on the objects directly.  Each one ends the record
\* of consecutive decodeAndExecute calls (last, prev).

\* Memory.write(a, v).
MemoryWriteCall(a, v) ==
    /\ data' = MemWrite(data, a, v)
    /\ call' = HostCall("Memory.write", a, v, 0)
    /\ calls' = calls + 1
    /\ last' = NoCall
    /\ prev' = NoCall
    /\ UNCHANGED <<A, X, Y, PC, SP, Flags, phase, steps, ppu, rom, frame>>

\* Memory.read(b): nothing changes; the value returned is kept in call.ret.
MemoryReadCall(b) ==
    /\ call' = HostCall("Memory.read", b, 0, MemRead(data, b))
    /\ last' = NoCall
    /\ prev' = NoCall
    /\ UNCHANGED <<A, X, Y, PC, SP, Flags, data, phase, steps, ppu, rom, calls,
                   frame>>

\* PPU.writeRegister(a, v).
PPUWriteCall(a, v) ==
    /\ ppu' = writeRegister(ppu, a, v)
    /\ call' = HostCall("PPU.writeRegister", a, v, 0)
    /\ calls' = calls + 1
    /\ last' = NoCall
    /\ prev' = NoCall
    /\ UNCHANGED <<A, X, Y, PC, SP, Flags, data, phase, steps, rom, frame>>

\* PPU.readRegister(a).
PPUReadCall(a) ==
    /\ \E r \in {readRegister(ppu, a)} :
        /\ ppu' = r.p
        /\ call' = HostCall("PPU.readRegister", a, 0, r.v)
    /\ last' = NoCall
    /\ prev' = NoCall
    /\ UNCHANGED <<A, X, Y, PC, SP, Flags, data, phase, steps, rom, calls,
                   frame>>

\* CPU.reset().
ResetCall ==
    /\ \E t \in {CPU_reset(Cur)} :
        /\ A' = t.A
        /\ X' = t.X
        /\ Y' = t.Y
        /\ PC' = t.PC
        /\ SP' = t.SP
        /\ Flags' = t.F
        /\ data' = t.data
    /\ call' = HostCall("CPU.reset", 0, 0, 0)
    /\ calls' = calls + 1
    /\ last' = NoCall
    /\ prev' = NoCall
    /\ UNCHANGED <<phase, steps, ppu, rom, frame>>

\* loadRom of file f, as main calls it before the first frame; rom keeps the
\* memory as an accepted file left it.
LoadRomCall(f) ==
    /\ \E t \in {loadRom(Cur, f)} :
        /\ A' = t.A
        /\ X' = t.X
        /\ Y' = t.Y
        /\ PC' = t.PC
        /\ SP' = t.SP
        /\ Flags' = t.F
        /\ data' = t.data
        /\ rom' = IF f.magic THEN [loaded |-> TRUE, image |-> t.data] ELSE rom
        /\ call' = [HostCall("loadRom", 0, 0, 0) EXCEPT !.file = f,
                                                         !.log = t.log]
    /\ phase' = "run"
    /\ last' = NoCall
    /\ prev' = NoCall
    /\ UNCHANGED <<steps, ppu, calls>>

\* ROM files: one with a wrong signature; one with no PRG bank; one bank
\* holding STA $8000 at its start and $80 at offset $3FFD; two banks with
\* the same start and the reset vector $C000 at offsets $7FFC/$7FFD; three
\* banks, one more than fits, with a byte at offset $8000; two banks for
\* mapper 1; and a file that declares two banks and ends after 256 bytes
\* of the first.
Roms ==
    { [magic |-> FALSE, prgBanks |-> 1, mapper |-> 0, length |-> 16400,
       prg |-> (0 :> 141 @@ 2 :> 128)],
      [magic |-> TRUE, prgBanks |-> 0, mapper |-> 0, length |-> 16400,
       prg |-> (0 :> 141 @@ 2 :> 128)],
      [magic |-> TRUE, prgBanks |-> 1, mapper |-> 0, length |-> 16400,
       prg |-> (0 :> 141 @@ 2 :> 128 @@ 16381 :> 128)],
      [magic |-> TRUE, prgBanks |-> 2, mapper |-> 0, length |-> 32784,
       prg |-> (0 :> 141 @@ 2 :> 128 @@ 32765 :> 192)],
      [magic |-> TRUE, prgBanks |-> 3, mapper |-> 0, length |-> 49168,
       prg |-> (0 :> 141 @@ 2 :> 128 @@ 32765 :> 192 @@ 32768 :> 255)],
      [magic |-> TRUE, prgBanks |-> 2, mapper |-> 1, length |-> 32784,
       prg |-> (0 :> 141 @@ 2 :> 128 @@ 32765 :> 192)],
      [magic |-> TRUE, prgBanks |-> 2, mapper |-> 0, length |-> 272,
       prg |-> (0 :> 141 @@ 2 :> 128)] }

\* Bus addresses the host writes and reads: RAM and a mirror, PPUCTRL,
\* PPUSTATUS, a mirror of OAMADDR, and the first PRG-ROM byte.
BusAddrs == {1, 2049, 8192, 8194, 8203, 32768}

BusVals == {5, 128}

\* Addresses the host passes to the PPU: the eight registers, one address
\* past them, and OAMDMA.
RegAddrs == (8192 .. 8200) \cup {16404}

RegVals == {128}

LoadRom ==
    /\ phase = "load"
    /\ \E f \in Roms : LoadRomCall(f)
    /\ UNCHANGED frame

BusWrite ==
    /\ phase = "run"
    /\ steps = 0
    /\ calls < MaxCalls
    /\ \E a \in BusAddrs, v \in BusVals : MemoryWriteCall(a, v)

BusRead ==
    /\ phase = "run"
    /\ steps = 0
    /\ \E b \in BusAddrs : MemoryReadCall(b)

RegisterWrite ==
    /\ phase = "run"
    /\ steps = 0
    /\ calls < MaxCalls
    /\ \E a \in RegAddrs, v \in RegVals : PPUWriteCall(a, v)

RegisterRead ==
    /\ phase = "run"
    /\ steps = 0
    /\ \E a \in RegAddrs : PPUReadCall(a)

Reset ==
    /\ phase = "run"
    /\ calls < MaxCalls
    /\ ResetCall

\* The host loads a ROM, makes calls on the objects, and then runs the CPU;
\* the reset can come at any time.
NextBus ==
    \/ LoadRom
    \/ BusWrite
    \/ BusRead
    \/ RegisterWrite
    \/ RegisterRead
    \/ Reset
    \/ DecodeAndExecute

SpecBus == Init /\ [][NextBus]_vars

\* Writes and reads of the internal RAM range $0000-$1FFF: cells at both
\* ends of the 2 KiB and of the stack page, and their images in the mirrors.
RamAddrs ==
    {0, 1, 255, 256, 2047, 2048, 2049, 2304, 4095, 4096, 4097, 6143, 6144,
     6145, 8190, 8191}

RamVals == {0, 1, 128, 255}

RamWrite ==
    /\ calls < MaxCalls
    /\ \E a \in RamAddrs, v \in RamVals : MemoryWriteCall(a, v)

RamRead == \E b \in RamAddrs : MemoryReadCall(b)

NextRam == RamWrite \/ RamRead

SpecRam == Init /\ [][NextRam]_vars

\* loadRom called on a machine that has been running: test_program's code
\* and two other programs, at $0000 and at $8000, of which the host runs
\* some instructions before it calls loadRom and goes on.
RomPrograms ==
    { <<169, 5, 233, 3>>,
      <<169, 128, 170, 154, 168>>,
      <<56, 248, 169, 5, 141, 0, 192>> }

TestProgram ==
    /\ phase = "load"
    /\ \E base \in Bases : \E p \in RomPrograms : Load(p, base)

Reload ==
    /\ phase = "run"
    /\ call.fn # "loadRom"
    /\ ~rom.loaded
    /\ \E f \in Roms : LoadRomCall(f)
    /\ UNCHANGED frame

NextRom == TestProgram \/ DecodeAndExecute \/ Reload

SpecRom == Init /\ [][NextRom]_vars

---------------------------------------------------------------------------
\* emulateFrame, one loop position at a time.

\* An inner loop that runs two PPU cycles for each CPU cycle.
PpuLoopContinues_TwoTicks(i) == i < 2

\* The test of for (let i = 0; i < 3; i++).
PpuLoopContinues(i) == i < 3

\* The entry of emulateFrame(limitCycles): the locals are initialised.
FrameEntered(fr, limit) ==
    [fr EXCEPT !.at = "cpu", !.cpuCycles = 0, !.ppuCycles = 0, !.i = 0,
               !.limitCycles = limit, !.executed = 0]

\* A loop that breaks only once cpuCycles has passed limitCycles.
AfterInnerLoop_BreaksPastLimit(fr) ==
    IF (\E n \in fr.limitCycles : fr.cpuCycles > n)
       \/ ~(fr.cpuCycles < CYCLES_PER_FRAME)
    THEN [fr EXCEPT !.at = "end"]
    ELSE [fr EXCEPT !.at = "cpu"]

\* Where control goes after the inner loop: out of the while loop on the
\* break (limitCycles is not null and cpuCycles has reached it) or when
\* the while test fails, to the loop head otherwise.
AfterInnerLoop(fr) ==
    IF (\E n \in fr.limitCycles : fr.cpuCycles >= n)
       \/ ~(fr.cpuCycles < CYCLES_PER_FRAME)
    THEN [fr EXCEPT !.at = "end"]
    ELSE [fr EXCEPT !.at = "cpu"]

\* ROM files main is run on: two banks with JMP $8000 at $8000, the NMI
\* vector $9000 and the reset vector $8000; and a file with a wrong
\* signature, after which the CPU runs on the zeroed memory.
BootRoms ==
    { [magic |-> TRUE, prgBanks |-> 2, mapper |-> 0, length |-> 32784,
       prg |-> (0 :> 76 @@ 2 :> 128 @@ 32763 :> 144 @@ 32765 :> 128)],
      [magic |-> FALSE, prgBanks |-> 2, mapper |-> 0, length |-> 32784,
       prg |-> (0 :> 76 @@ 2 :> 128)] }

\* Arguments a host passes to emulateFrame directly: below, at and above
\* one, and above CYCLES_PER_FRAME.
Limits == {-1, 0, 1, 2, CYCLES_PER_FRAME + 220}

\* The host sets bit 7 of PPUCTRL, if it is clear, before main runs.
EnableNmi ==
    /\ phase = "load"
    /\ ppu.ctrl \div 128 = 0
    /\ PPUWriteCall(8192, 128)

\* main(false): loadRom(romPath), then emulateFrame().
Main ==
    /\ phase = "load"
    /\ \E f \in BootRoms : LoadRomCall(f)
    /\ frame' = FrameEntered(frame, {})

\* A host that calls emulateFrame(limitCycles) without loading a ROM.
EmulateFrame ==
    /\ phase = "load"
    /\ \E n \in Limits : frame' = FrameEntered(frame, {n})
    /\ phase' = "run"
    /\ UNCHANGED <<A, X, Y, PC, SP, Flags, data, steps, last, prev, ppu, rom,
                   calls, call>>

\* The loop head and executeCPUCycle(); cpuCycles++.
FrameCpu ==
    /\ frame.at = "cpu"
    /\ Step
    /\ frame' = [frame EXCEPT !.cpuCycles = @ + 1, !.at = "ppu", !.i = 0,
                              !.executed = @ + 1]
    /\ UNCHANGED <<phase, steps, ppu, rom, calls>>

\* One pass of the inner loop: PPU.executeCycles(1); ppuCycles++; i++; after
\* the last pass, the break test and the while test.
FramePpu ==
    /\ frame.at = "ppu"
    /\ ppu' = executeCycles(ppu, 1)
    /\ frame' =
        LET fr == [frame EXCEPT !.ppuCycles = @ + 1, !.i = @ + 1] IN
        IF PpuLoopContinues(fr.i) THEN fr ELSE AfterInnerLoop(fr)
    /\ UNCHANGED <<A, X, Y, PC, SP, Flags, data, phase, steps, last, prev, rom,
                   calls, call>>

\* An emulateFrame that schedules two successors.
AfterLoop_SchedulesTwo(fr) ==
    [fr EXCEPT !.frameCounter = @ + 1, !.pending = @ + 2, !.at = "none"]

\* The code after the loop: frameCounter++ and one setTimeout; the call
\* returns.
AfterLoop(fr) ==
    [fr EXCEPT !.frameCounter = @ + 1, !.pending = @ + 1, !.at = "none"]

\* Past the loop: frameCounter++ and setTimeout(() => emulateFrame(
\* limitCycles), ...); the call returns.  The delay computed from the clock
\* decides only when the callback runs.
FrameEnd ==
    /\ frame.at = "end"
    /\ frame' = AfterLoop(frame)
    /\ UNCHANGED <<A, X, Y, PC, SP, Flags, data, phase, steps, last, prev, ppu,
                   rom, calls, call>>

\* A setTimeout callback runs, once no call is running: emulateFrame is
\* entered with the same limitCycles.
Timer ==
    /\ frame.at = "none"
    /\ frame.pending > 0
    /\ frame.frameCounter < MaxFrames
    /\ frame' = FrameEntered([frame EXCEPT !.pending = @ - 1],
                             frame.limitCycles)
    /\ UNCHANGED <<A, X, Y, PC, SP, Flags, data, phase, steps, last, prev, ppu,
                   rom, calls, call>>

NextFrame ==
    \/ EnableNmi
    \/ Main
    \/ EmulateFrame
    \/ FrameCpu
    \/ FramePpu
    \/ FrameEnd
    \/ Timer

SpecFrame == Init /\ [][NextFrame]_vars

---------------------------------------------------------------------------
\* Properties.  Before is the state the last decodeAndExecute call started
\* from; Fetched(k) is the byte k places after its opcode.

Before ==
    [A |-> last.A, X |-> last.X, Y |-> last.Y, PC |-> last.PC, SP |-> last.SP,
     F |-> last.F, data |-> last.data, stk |-> <<>>, taken |-> FALSE,
     log |-> <<>>]

Called == last.op # -1

Fetched(k) == MemRead(last.data, last.PC + k)

\* What the addressing mode of the last opcode returned: a value or an
\* effective address.
Resolved == Resolve(ModeOf(last.op), [Before EXCEPT !.PC = last.PC + 1])

Bit7(v) == (v \div 128) % 2

CarryIn == IF last.F.CarryFlag THEN 1 ELSE 0

MemoryModes ==
    {"ZeroPage", "ZeroPageX", "ZeroPageY", "Absolute", "AbsoluteX",
     "AbsoluteY", "IndX", "IndY"}

\* C1: after every decodeAndExecute call from power-on, A, X, Y and SP are
\* each an integer in [0,255].
C1_RegistersAreBytes ==
    Called => (A \in Byte /\ X \in Byte /\ Y \in Byte /\ SP \in Byte)

\* C2: after every decodeAndExecute call PC is in [0,$FFFF]: increments and
\* computed targets wrap modulo $10000.
C2_PCIsSixteenBit == Called => PC \in 0 .. 65535

\* C3: every push or pull of PHA, PHP, PLA, PLP, JSR, RTS, BRK and RTI
\* accesses $0100 | SP, an address in $0100-$01FF, and leaves SP one below
\* (push) or one above (pull) the old SP modulo 256.
C3_StackStaysInPageOne ==
    (Called /\ InstrOf(last.op) \in
        {"PHA", "PHP", "PLA", "PLP", "JSR", "RTS", "BRK", "RTI"}) =>
    \A i \in 1 .. Len(last.stk) :
        LET e == last.stk[i] IN
        /\ e.addr \in 256 .. 511
        /\ e.kind = "push" => (e.addr = 256 + e.sp0 /\ e.sp1 = (e.sp0 - 1) % 256)
        /\ e.kind = "pull" => (e.addr = 256 + e.sp1 /\ e.sp1 = (e.sp0 + 1) % 256)

\* C4: a value-reading instruction (LDA, LDX, LDY, ADC, SBC, AND, EOR, CMP,
\* CPX, CPY) through a memory addressing mode uses the byte stored at the
\* effective address: its registers and flags are those of the instruction
\* applied to that byte.
C4_OperandIsByteAtAddress ==
    (Called
     /\ InstrOf(last.op) \in
            {"LDA", "LDX", "LDY", "ADC", "SBC", "AND", "EOR", "CMP", "CPX", "CPY"}
     /\ ModeOf(last.op) \in MemoryModes) =>
    LET m == readMemory(Resolved.s, Resolved.v)
        expected == Perform(InstrOf(last.op), Resolved.s, m)
    IN /\ A = expected.A
       /\ X = expected.X
       /\ Y = expected.Y
       /\ Flags = expected.F

C6_SbcIsAdcOfComplement ==
    /\ (last.op = 233 /\ last.A \in Byte) =>
        LET M == Fetched(1)
            adc == ADC(Before, 255 - M)
            diff == last.A - M - (1 - CarryIn)
        IN /\ A = adc.A
           /\ Flags.CarryFlag = adc.F.CarryFlag
           /\ Flags.ZeroFlag = adc.F.ZeroFlag
           /\ Flags.NegativeFlag = adc.F.NegativeFlag
           /\ A = diff % 256
           /\ Flags.CarryFlag = (diff >= 0)
    /\ (steps = 3 /\ last.op = 233 /\ MemRead(data, 0) = 56
            /\ MemRead(data, 1) = 169 /\ MemRead(data, 2) = 5
            /\ MemRead(data, 4) = 3) =>
        (A = 2 /\ Flags.CarryFlag)

\* C6 witness: SEC; LDA #5; SBC #3 has run and left A=2 with C set.
C6_Witness ==
    /\ steps = 3
    /\ last.op = 233
    /\ last.A = 5
    /\ Fetched(1) = 3
    /\ last.F.CarryFlag
    /\ A = 2
    /\ Flags.CarryFlag

\* C7: after SBC #M with A, M in [0,255] the overflow flag is
\* ((oldA ^ result) & ((~M) ^ result) & $80) # 0 with
\* result = oldA + (M XOR $FF) + C.
C7_SbcOverflow ==
    (last.op = 233 /\ last.A \in Byte) =>
        LET notM == 255 - Fetched(1)
            result == last.A + notM + CarryIn
        IN Flags.OverflowFlag =
            (Bit7(last.A) # Bit7(result) /\ Bit7(notM) # Bit7(result))

\* C7 witness: SBC #1 from A=$80 with C set has run: $80 - 1 = $7F
\* overflows, and V is set.
C7_Witness ==
    /\ last.op = 233
    /\ last.A = 128
    /\ Fetched(1) = 1
    /\ last.F.CarryFlag
    /\ A = 127
    /\ Flags.OverflowFlag

\* The operand value of the last opcode: the byte fetched in Immediate mode,
\* the byte at the effective address in a memory mode.
OperandValue ==
    IF ModeOf(last.op) \in MemoryModes
    THEN readMemory(Resolved.s, Resolved.v)
    ELSE Resolved.v

\* C8: every ORA opcode ($09, $0D, $05, $01, $11, $15, $1D, $19) with
\* operand value M leaves A = oldA | M, Z and N set from the new A, and
\* memory and the carry flag unchanged.
C8_OraOrsIntoA ==
    (Called /\ last.op \in {9, 13, 5, 1, 17, 21, 29, 25}) =>
        /\ A = Or(last.A, OperandValue)
        /\ Flags.ZeroFlag = (A = 0)
        /\ Flags.NegativeFlag = (Bit7(A) = 1)
        /\ data = last.data
        /\ Flags.CarryFlag = last.F.CarryFlag

\* C9: every ROR opcode ($6A on A; $66, $76, $6E, $7E on memory) with
\* operand value v and old carry c leaves (v >> 1) | (c << 7) in A or at the
\* effective address, C = bit 0 of v, and Z and N from the result.
C9_RorRotatesRight ==
    (Called /\ last.op \in {106, 102, 118, 110, 126}) =>
        LET v == IF last.op = 106 THEN last.A
                 ELSE readMemory(Resolved.s, Resolved.v)
            result == (v \div 2) + 128 * CarryIn
            stored == IF last.op = 106 THEN A ELSE MemRead(data, Resolved.v)
        IN /\ stored = result
           /\ Flags.CarryFlag = (v % 2 = 1)
           /\ Flags.ZeroFlag = (result = 0)
           /\ Flags.NegativeFlag = (Bit7(result) = 1)

\* C10: opcode $50 is BVC and opcode $70 is BVS: $50 branches exactly when
\* V=0, $70 exactly when V=1.
C10_BvcBvsOpcodes ==
    /\ (Called /\ last.op = 80) => (last.taken <=> ~last.F.OverflowFlag)
    /\ (Called /\ last.op = 112) => (last.taken <=> last.F.OverflowFlag)

\* Bit n of byte v.
BitOf(v, n) == (v \div (2 ^ n)) % 2

\* C11: JMP (ptr) (opcode $6C) dereferences the pointer exactly once: PC
\* becomes read(ptr) | read((ptr & $FF00) | ((ptr+1) & $FF)) << 8; with
\* $00FF=$34 and $0000=$12, JMP ($00FF) leaves PC=$1234.
C11_JmpIndirectOnce ==
    (Called /\ last.op = 108) =>
        LET ptr == Fetched(1) + 256 * Fetched(2)
            lo == MemRead(last.data, ptr)
            hi == MemRead(last.data, (ptr \div 256) * 256 + ((ptr + 1) % 256))
        IN /\ PC = lo + 256 * hi
           /\ (ptr = 255 /\ lo = 52 /\ hi = 18) => PC = 4660

\* C12: JSR at p (p+2 <= $FFFF) immediately followed by RTS, from any SP and
\* to any target, leaves PC = p+3 and SP as it was before the JSR, and the
\* two bytes JSR wrote to the stack are the high, then the low byte of p+2.
C12_JsrRtsRoundTrip ==
    (prev.op = 32 /\ last.op = 96 /\ prev.PC >= 0 /\ prev.PC + 2 <= 65535) =>
        LET ret == prev.PC + 2 IN
        /\ PC = prev.PC + 3
        /\ SP = prev.SP
        /\ Len(prev.stk) = 2
        /\ MemRead(last.data, prev.stk[1].addr) = ret \div 256
        /\ MemRead(last.data, prev.stk[2].addr) = ret % 256

\* C13: PHA immediately followed by PLA, with A in [0,255] and any SP,
\* leaves A and SP unchanged, Z = (A = 0) and N = bit 7 of A.
C13_PhaPlaRoundTrip ==
    (prev.op = 72 /\ last.op = 104 /\ prev.A \in Byte) =>
        /\ A = prev.A
        /\ SP = prev.SP
        /\ Flags.ZeroFlag = (prev.A = 0)
        /\ Flags.NegativeFlag = (Bit7(prev.A) = 1)

\* C14: for a, b in $0000-$1FFF and a byte v, Memory.read(b) after
\* Memory.write(a, v) returns v when b and a agree modulo $0800, and the
\* value b held before the write otherwise.
C14_RamMirrored ==
    [][(call.fn = "Memory.write" /\ call'.fn = "Memory.read"
        /\ call.address \in 0 .. 8191 /\ call'.address \in 0 .. 8191) =>
            call'.ret = IF call'.address % 2048 = call.address % 2048
                        THEN call.value
                        ELSE MemRead(call.data, call'.address)]_vars

\* C14 witness: after two writes, the second one to $0001, a read of the
\* mirror $0801 returned $80, the byte the cell of $0001 holds, while the
\* cell of $0000 holds another byte written before.
C14_Witness ==
    /\ call.fn = "Memory.read"
    /\ call.address = 2049
    /\ call.ret = 128
    /\ calls = 2
    /\ Peek(data, 1) = 128
    /\ Peek(data, 0) = 255

\* The PPU register numbered n (0 CTRL, 1 MASK, 2 STATUS, 3 OAMADDR,
\* 4 OAMDATA, 5 SCROLL, 6 ADDR, 7 DATA).
PPURegister(p, n) ==
    CASE n = 0 -> p.ctrl
      [] n = 1 -> p.mask
      [] n = 2 -> p.status
      [] n = 3 -> p.oamAddr
      [] n = 4 -> p.oamData
      [] n = 5 -> p.scroll
      [] n = 6 -> p.addr
      [] n = 7 -> p.data

\* C15: a bus write of v to an address in $2000-$3FFF reaches the PPU
\* register numbered (address & 7): afterwards that register (CTRL for
\* $2000 + 8k, OAMADDR for $2003 + 8k; STATUS, read-only, excepted) holds v.
C15_BusWriteReachesPPU ==
    (call.fn = "Memory.write" /\ call.address \in 8192 .. 16383
     /\ call.address % 8 # 2) =>
        PPURegister(ppu, call.address % 8) = call.value

\* C16: after a read of $2002, through the bus or through PPU.readRegister,
\* bit 7 (VBlank) of STATUS is 0, both in the PPU object and in the byte the
\* bus serves at $2002.
C16_StatusReadClearsVBlank ==
    ((call.fn = "Memory.read" /\ call.address \in 8192 .. 16383
        /\ call.address % 8 = 2)
     \/ (call.fn = "PPU.readRegister" /\ call.address = 8194)) =>
        /\ BitOf(ppu.status, 7) = 0
        /\ BitOf(MemRead(data, 8194), 7) = 0

\* C17: once a PRG-ROM has been loaded, every address in $8000-$FFFF reads
\* what it read when loadRom returned, whatever the CPU executes and
\* whatever Memory.write is called with.
C17_PrgRomReadOnly ==
    rom.loaded =>
        \A a \in {x \in (DOMAIN data) \cup (DOMAIN rom.image) : x >= 32768} :
            MemRead(data, a) = MemRead(rom.image, a)

\* C18: after CPU.reset() (called directly or by loadRom), SP=$FD, A=X=Y=0,
\* I=1, PC is the little-endian word at $FFFC/$FFFD, and no byte of the
\* stack page has been written.
C18_ResetState ==
    (call.fn = "CPU.reset" \/ (call.fn = "loadRom" /\ rom.loaded)) =>
        /\ SP = 253
        /\ A = 0
        /\ X = 0
        /\ Y = 0
        /\ Flags.InterruptFlag
        /\ PC = MemRead(data, 65532) + 256 * MemRead(data, 65533)
        /\ \A a \in 256 .. 511 : MemRead(data, a) = MemRead(call.data, a)

\* C19: BRK at p with stack pointer s writes the high byte of p+2 at
\* $0100+s, the low byte at $0100+((s-1)&$FF) and a status byte with bits 4
\* and 5 set at $0100+((s-2)&$FF); afterwards SP = (s-3)&$FF, I=1 and PC is
\* the word at $FFFE/$FFFF.
C19_BrkPushesAndVectors ==
    (Called /\ last.op = 0 /\ last.SP \in Byte /\ last.PC \in 0 .. 65533) =>
        LET s == last.SP
            ret == last.PC + 2
            status == MemRead(data, 256 + ((s - 2) % 256))
        IN /\ MemRead(data, 256 + s) = ret \div 256
           /\ MemRead(data, 256 + ((s - 1) % 256)) = ret % 256
           /\ BitOf(status, 4) = 1
           /\ BitOf(status, 5) = 1
           /\ SP = (s - 3) % 256
           /\ Flags.InterruptFlag
           /\ PC = MemRead(data, 65534) + 256 * MemRead(data, 65535)

\* C20: after PLP ($28) or RTI ($40) the B flag is 0 whatever bit 4 of the
\* pulled status byte was, and C, Z, I, D, V, N are bits 0, 1, 2, 3, 6, 7 of
\* that byte.
C20_PulledFlagsIgnoreB ==
    (Called /\ last.op \in {40, 64}) =>
        LET b == MemRead(last.data, last.stk[1].addr) IN
        /\ ~Flags.BreakFlag
        /\ Flags.CarryFlag = (BitOf(b, 0) = 1)
        /\ Flags.ZeroFlag = (BitOf(b, 1) = 1)
        /\ Flags.InterruptFlag = (BitOf(b, 2) = 1)
        /\ Flags.DecimalModeFlag = (BitOf(b, 3) = 1)
        /\ Flags.OverflowFlag = (BitOf(b, 6) = 1)
        /\ Flags.NegativeFlag = (BitOf(b, 7) = 1)

\* The 151 opcode bytes of the documented 6502 instruction set.
OfficialOpcodes ==
    {
      0, 1, 5, 6, 8, 9, 10, 13, 14, 16, 17, 21, 22, 24, 25, 29,
      30, 32, 33, 36, 37, 38, 40, 41, 42, 44, 45, 46, 48, 49, 53, 54,
      56, 57, 61, 62, 64, 65, 69, 70, 72, 73, 74, 76, 77, 78, 80, 81,
      85, 86, 88, 89, 93, 94, 96, 97, 101, 102, 104, 105, 106, 108, 109, 110,
      112, 113, 117, 118, 120, 121, 125, 126, 129, 132, 133, 134, 136, 138, 140, 141,
      142, 144, 145, 148, 149, 150, 152, 153, 154, 157, 160, 161, 162, 164, 165, 166,
      168, 169, 170, 172, 173, 174, 176, 177, 180, 181, 182, 184, 185, 186, 188, 189,
      190, 192, 193, 196, 197, 198, 200, 201, 202, 204, 205, 206, 208, 209, 213, 214,
      216, 217, 221, 222, 224, 225, 228, 229, 230, 232, 233, 234, 236, 237, 238, 240,
      241, 245, 246, 248, 249, 253, 254 }

\* C21: for every opcode byte outside the 151 official ones,
\* decodeAndExecute reports it and leaves A, X, Y, SP, every flag and all
\* memory unchanged, with PC one past the opcode byte; the call after it
\* fetches the byte at that PC from the same registers and memory.
C21_UnknownOpcodeIsSkipped ==
    /\ (Called /\ last.op \notin OfficialOpcodes) =>
        /\ last.log = <<"[UNRECOGNIZED]">>
        /\ A = last.A
        /\ X = last.X
        /\ Y = last.Y
        /\ SP = last.SP
        /\ Flags = last.F
        /\ data = last.data
        /\ PC = last.PC + 1
    /\ (prev.op # -1 /\ prev.op \notin OfficialOpcodes /\ Called) =>
        /\ last.PC = prev.PC + 1
        /\ last.op = MemRead(prev.data, prev.PC + 1)
        /\ last.A = prev.A
        /\ last.X = prev.X
        /\ last.Y = prev.Y
        /\ last.SP = prev.SP
        /\ last.F = prev.F
        /\ last.data = prev.data

\* C21 witness: after LDA #$80, the byte $02 was reported and skipped with
\* A=$80 and N kept, and the BRK after it was fetched and executed.
C21_Witness ==
    /\ prev.op = 2
    /\ prev.log = <<"[UNRECOGNIZED]">>
    /\ prev.A = 128
    /\ last.op = 0
    /\ last.PC = prev.PC + 1
    /\ last.A = 128
    /\ last.F.NegativeFlag
    /\ steps = 3

\* C22: within a frame the PPU runs three cycles for each CPU cycle, between
\* one instruction and the next: at every instruction boundary the PPU
\* cycle count is 3 times the CPU cycle count (and, in the first frame, so
\* is the number of cycles the PPU object has been run for); inside the
\* inner loop it is 3 times the earlier CPU cycles plus the passes made.
C22_PpuRunsThreeTimesCpu ==
    /\ frame.at \in {"cpu", "end"} =>
        /\ frame.ppuCycles = 3 * frame.cpuCycles
        /\ frame.frameCounter = 0 => ppu.currentScanline = 3 * frame.cpuCycles
    /\ frame.at = "ppu" =>
        /\ frame.i \in 0 .. 2
        /\ frame.ppuCycles = 3 * (frame.cpuCycles - 1) + frame.i

\* C22 witness: main's first frame stands before its third instruction,
\* after two JMP $8000 and six PPU cycles.
C22_Witness ==
    /\ frame.at = "cpu"
    /\ frame.frameCounter = 0
    /\ frame.limitCycles = {}
    /\ frame.cpuCycles = 2
    /\ frame.ppuCycles = 6
    /\ ppu.currentScanline = 6
    /\ last.op = 76
    /\ prev.op = 76

\* C23: every executed opcode advances the frame's CPU cycle counter by at
\* least 2, so a frame of 29780 CPU cycles executes at most 14890
\* instructions.
C23_OpcodeTakesTwoCycles ==
    /\ [][frame'.executed = frame.executed + 1 =>
            frame'.cpuCycles >= frame.cpuCycles + 2]_vars
    /\ [](frame.executed <= 14890)

\* C24: after any number of PPU cycles, in any number of frames, the PPU
\* scanline counter is in [0,261].
C24_ScanlineInRange == ppu.currentScanline \in 0 .. 261

\* C25: while the PPU runs, STATUS bit 7 is 1 after scanline 241 dot 1 and
\* before scanline 261 dot 1 (on scanlines 242..260), and 0 on the
\* scanlines before 241.
C25_VBlankFollowsScanline ==
    /\ ppu.currentScanline \in 242 .. 260 => BitOf(ppu.status, 7) = 1
    /\ ppu.currentScanline \in 1 .. 240 => BitOf(ppu.status, 7) = 0

\* C26: if CTRL bit 7 is set when the PPU passes scanline 241, the CPU, at
\* the next instruction boundary, pushes PC high, PC low and the flags with
\* B=0 and U=1 and fetches from the vector at $FFFA/$FFFB.
C26_NmiAtVBlank ==
    [][(frame.at = "cpu" /\ frame'.at = "ppu"
        /\ ppu.currentScanline \in 241 .. 243 /\ BitOf(ppu.ctrl, 7) = 1
        /\ SP \in Byte /\ PC \in 0 .. 65535) =>
            LET pushed == last'.data
                status == MemRead(pushed, 256 + ((SP - 2) % 256))
            IN /\ last'.PC = MemRead(data, 65530) + 256 * MemRead(data, 65531)
               /\ last'.SP = (SP - 3) % 256
               /\ MemRead(pushed, 256 + SP) = PC \div 256
               /\ MemRead(pushed, 256 + ((SP - 1) % 256)) = PC % 256
               /\ BitOf(status, 4) = 0
               /\ BitOf(status, 5) = 1]_vars

\* The registers, the flags and the memory of the CPU.
cpuState == <<A, X, Y, SP, PC, Flags, data>>

\* C27: loadRom on a file whose first four bytes are not 'N','E','S',$1A
\* reports the file as invalid and leaves the memory and A, X, Y, SP, PC
\* and the flags exactly as they were before the call.
C27_BadMagicChangesNothing ==
    [][(call'.fn = "loadRom" /\ ~call'.file.magic) =>
            /\ call'.log = <<InvalidRom>>
            /\ UNCHANGED cpuState]_vars

\* C27 witness: loadRom has rejected a file after the machine ran the three
\* instructions LDA #$80; TAX; TXS at $8000, and the registers and the
\* program bytes are still those of the run.
C27_Witness ==
    /\ call.fn = "loadRom"
    /\ ~call.file.magic
    /\ call.log = <<InvalidRom>>
    /\ steps = 3
    /\ A = 128
    /\ X = 128
    /\ SP = 128
    /\ PC = 32772
    /\ Flags.NegativeFlag
    /\ MemRead(data, 32768) = 169

\* Byte k of the PRG data of file f.
PrgByte(f, k) == IF k \in DOMAIN f.prg THEN f.prg[k] ELSE 0

\* C28: after loadRom of a file with exactly one 16 KiB PRG bank,
\* Memory.read($8000+k) and Memory.read($C000+k) both return PRG byte k,
\* for every k in [0,$3FFF].
C28_SingleBankMirrored ==
    (call.fn = "loadRom" /\ call.file.magic /\ call.file.prgBanks = 1
     /\ call.file.mapper = 0 /\ call.file.length = 16 + 16384) =>
        \A k \in 0 .. 16383 :
            /\ MemRead(data, 32768 + k) = PrgByte(call.file, k)
            /\ MemRead(data, 49152 + k) = PrgByte(call.file, k)

\* C29: loadRom of a file whose mapper number is not 0, or which is shorter
\* than its header plus the PRG size it declares, leaves the memory and the
\* registers as they were.
C29_UnsupportedRomRejected ==
    [][(call'.fn = "loadRom"
        /\ (\/ call'.file.mapper # 0
            \/ call'.file.length < 16 + PrgRomSize(call'.file))) =>
            UNCHANGED cpuState]_vars

\* The opcodes of ADC and SBC in their eight addressing modes.
AdcOpcodes == {105, 101, 117, 109, 125, 121, 97, 113}
SbcOpcodes == {233, 229, 245, 237, 253, 249, 225, 241}

\* C30: the decimal flag has no influence on ADC and SBC: run from the state
\* that differs only in D, the instruction leaves the same A, C, Z, N and V,
\* and in both runs D is what it was.
C30_DecimalFlagIgnored ==
    (Called /\ last.op \in AdcOpcodes \cup SbcOpcodes) =>
        LET other == Execute([Before EXCEPT !.F.DecimalModeFlag = ~@])
        IN /\ A = other.A
           /\ Flags.CarryFlag = other.F.CarryFlag
           /\ Flags.ZeroFlag = other.F.ZeroFlag
           /\ Flags.NegativeFlag = other.F.NegativeFlag
           /\ Flags.OverflowFlag = other.F.OverflowFlag
           /\ Flags.DecimalModeFlag = last.F.DecimalModeFlag
           /\ other.F.DecimalModeFlag = ~last.F.DecimalModeFlag

\* C30 witness: with D set and C clear, ADC #$01 on A=$09 has left the
\* binary sum $0A, and D is still set.
C30_Witness ==
    /\ last.op = 105
    /\ last.F.DecimalModeFlag
    /\ ~last.F.CarryFlag
    /\ last.A = 9
    /\ Fetched(1) = 1
    /\ A = 10
    /\ Flags.DecimalModeFlag

\* The condition under which each branch opcode is to branch, on the flags
\* the call started from: BPL, BMI, BVC, BVS, BCC, BCS, BNE, BEQ.
BranchOpcodes == {16, 48, 80, 112, 144, 176, 208, 240}

BranchCondition(op, F) ==
    IF op = 16 THEN ~F.NegativeFlag
    ELSE IF op = 48 THEN F.NegativeFlag
    ELSE IF op = 80 THEN ~F.OverflowFlag
    ELSE IF op = 112 THEN F.OverflowFlag
    ELSE IF op = 144 THEN ~F.CarryFlag
    ELSE IF op = 176 THEN F.CarryFlag
    ELSE IF op = 208 THEN ~F.ZeroFlag
    ELSE F.ZeroFlag

\* An operand byte read as a signed 8-bit number.
signext8(o) == IF o < 128 THEN o ELSE o - 256

\* C31: a branch opcode at p with operand byte o leaves PC at
\* (p + 2 + signext8(o)) mod $10000 if its condition holds and at p + 2
\* otherwise, and changes no flag, no register other than PC and no memory.
C31_BranchTargets ==
    (Called /\ last.op \in BranchOpcodes /\ last.PC \in 0 .. 65533) =>
        /\ PC = IF BranchCondition(last.op, last.F)
                THEN (last.PC + 2 + signext8(Fetched(1))) % 65536
                ELSE last.PC + 2
        /\ A = last.A
        /\ X = last.X
        /\ Y = last.Y
        /\ SP = last.SP
        /\ Flags = last.F
        /\ data = last.data

\* The register CMP #, CPX # and CPY # compare, as the call found it.
ComparedRegister ==
    IF last.op = 201 THEN last.A ELSE IF last.op = 224 THEN last.X ELSE last.Y

\* C32: CMP #M, CPX #M and CPY #M on a register value r in [0,255] leave A,
\* X, Y and the memory unchanged and set C = (r >= M), Z = (r = M) and N to
\* bit 7 of (r - M) mod 256.
C32_CompareImmediate ==
    (Called /\ last.op \in {201, 224, 192} /\ ComparedRegister \in Byte) =>
        LET r == ComparedRegister
            M == Fetched(1)
        IN /\ A = last.A
           /\ X = last.X
           /\ Y = last.Y
           /\ data = last.data
           /\ Flags.CarryFlag = (r >= M)
           /\ Flags.ZeroFlag = (r = M)
           /\ Flags.NegativeFlag = (((r - M) % 256) \div 128 = 1)

\* C32 witness: CPX #3 on X=5 has run from C=0 and left C set, Z and N
\* clear, with X still 5.
C32_Witness ==
    /\ last.op = 224
    /\ last.X = 5
    /\ ~last.F.CarryFlag
    /\ Fetched(1) = 3
    /\ X = 5
    /\ Flags.CarryFlag
    /\ ~Flags.ZeroFlag
    /\ ~Flags.NegativeFlag

\* The effective address C33 gives for the last opcode: the masked sum for
\* the two zero-page modes, the word at zp and (zp + 1) & $FF of page zero
\* for the two indirect ones.
ZeroPageEffective ==
    LET o == Fetched(1)
        mode == ModeOf(last.op)
        zp == IF mode = "IndX" THEN (o + last.X) % 256 ELSE o
        pointer == MemRead(last.data, zp)
                   + 256 * MemRead(last.data, (zp + 1) % 256)
    IN IF mode = "ZeroPageX" THEN (o + last.X) % 256
       ELSE IF mode = "ZeroPageY" THEN (o + last.Y) % 256
       ELSE IF mode = "IndX" THEN pointer
       ELSE (pointer + last.Y) % 65536

\* The register a zero-page indexed store writes.
StoredRegister ==
    IF last.op = 150 THEN last.X ELSE IF last.op = 148 THEN last.Y ELSE last.A

\* C33: with the index in [0,255], Zero Page,X and Zero Page,Y address
\* (op + index) & $FF, and (Indirect,X) and (Indirect),Y take both pointer
\* bytes from page zero, the high one from (zp + 1) & $FF; a store in one of
\* these modes writes its register there and nowhere else.
C33_ZeroPageIndexWraps ==
    (Called /\ ModeOf(last.op) \in ZeroPageIndexedModes
     /\ last.X \in Byte /\ last.Y \in Byte) =>
        /\ Resolved.v = ZeroPageEffective
        /\ ModeOf(last.op) \in {"ZeroPageX", "ZeroPageY"} =>
            ZeroPageEffective \in Byte
        /\ last.op \in ZeroPageIndexedStores =>
            data = MemWrite(last.data, ZeroPageEffective, StoredRegister)

\* C33 witness: STA ($F0,X) with X=$0F has taken its pointer from $FF and
\* $00 ($0310) and stored $AA there.
C33_Witness ==
    /\ last.op = 129
    /\ last.X = 15
    /\ Fetched(1) = 240
    /\ last.A = 170
    /\ MemRead(last.data, 255) = 16
    /\ MemRead(last.data, 0) = 3
    /\ MemRead(last.data, 256) = 85
    /\ MemRead(data, 784) = 170

\* The opcodes of STA, STX and STY.
StaOpcodes == {141, 133, 129, 145, 149, 157, 153}
StxOpcodes == {142, 134, 150}
StyOpcodes == {140, 132, 148}

\* C34: every STA, STX and STY opcode leaves A, X, Y, SP and the seven
\* flags unchanged and changes at most the memory byte at its effective
\* address (after mirroring), which afterwards equals the stored register.
C34_StoresOnlyStore ==
    (Called /\ last.op \in StaOpcodes \cup StxOpcodes \cup StyOpcodes) =>
        LET ea == Resolved.v
            reg == IF last.op \in StaOpcodes THEN last.A
                   ELSE IF last.op \in StxOpcodes THEN last.X
                   ELSE last.Y
        IN /\ A = last.A
           /\ X = last.X
           /\ Y = last.Y
           /\ SP = last.SP
           /\ Flags = last.F
           /\ MemRead(data, ea) = reg
           /\ \A a \in ((DOMAIN data) \cup (DOMAIN last.data)) \ {MemIndex(ea)} :
                Peek(data, a) = Peek(last.data, a)

\* C35: opcode $4E shifts the byte at the absolute address of its two
\* operand bytes, whatever X holds: the byte becomes old >> 1, C is bit 0 of
\* old, N is 0, and no other memory byte changes.
C35_LsrAbsoluteIgnoresX ==
    (Called /\ last.op = 78) =>
        LET address == Fetched(1) + 256 * Fetched(2)
            old == MemRead(last.data, address)
        IN /\ data = MemWrite(last.data, address, old \div 2)
           /\ Flags.CarryFlag = (old % 2 = 1)
           /\ ~Flags.NegativeFlag

\* C36: when a BRK at p (p + 2 <= $FFFF) is followed by the RTI its vector
\* points at, SP is what it was before the BRK, PC is p + 2, and C, Z, I,
\* D, V and N are what they were before the BRK.
C36_BrkRtiRoundTrip ==
    (Called /\ last.op = 64 /\ prev.op = 0 /\ prev.PC \in 0 .. 65533
     /\ last.PC = MemRead(prev.data, 65534) + 256 * MemRead(prev.data, 65535)) =>
        /\ SP = prev.SP
        /\ PC = prev.PC + 2
        /\ Flags.CarryFlag = prev.F.CarryFlag
        /\ Flags.ZeroFlag = prev.F.ZeroFlag
        /\ Flags.InterruptFlag = prev.F.InterruptFlag
        /\ Flags.DecimalModeFlag = prev.F.DecimalModeFlag
        /\ Flags.OverflowFlag = prev.F.OverflowFlag
        /\ Flags.NegativeFlag = prev.F.NegativeFlag

\* The number of decodeAndExecute calls C37 gives for the running
\* emulateFrame call.
ExpectedCalls ==
    IF frame.limitCycles = {} THEN CYCLES_PER_FRAME
    ELSE LET n == CHOOSE k \in frame.limitCycles : TRUE
             atLeastOne == IF n > 1 THEN n ELSE 1
         IN IF atLeastOne < CYCLES_PER_FRAME THEN atLeastOne
            ELSE CYCLES_PER_FRAME

\* The loop steps the running emulateFrame call has left if it is to make
\* ExpectedCalls calls: four for each call to come (the call and three
\* passes of the inner loop) and the passes left of the current one.
RemainingSteps ==
    IF frame.at = "cpu" THEN 4 * (ExpectedCalls - frame.executed)
    ELSE IF frame.at = "ppu"
         THEN 4 * (ExpectedCalls - frame.executed) + (3 - frame.i)
    ELSE 0

FramesInFlight == (IF frame.at = "none" THEN 0 ELSE 1) + frame.pending

\* C38: frames never overlap.  At any time at most one frame is running or
\* pending; a successor is scheduled, one at a time, only by a call whose
\* instruction loop has finished; and frameCounter goes up by exactly 1
\* when a frame completes and at no other time.
C38_FramesNeverOverlap ==
    /\ [](FramesInFlight <= 1)
    /\ [][/\ frame'.pending > frame.pending =>
                /\ frame.at = "end"
                /\ frame'.pending = frame.pending + 1
          /\ (frame.at = "end" /\ frame'.at = "none") =>
                frame'.frameCounter = frame.frameCounter + 1
          /\ ~(frame.at = "end" /\ frame'.at = "none") =>
                frame'.frameCounter = frame.frameCounter]_vars

\* C38 witness: main's second frame is running, two instructions in, the
\* first one counted and no callback pending.
C38_Witness ==
    /\ frame.at = "cpu"
    /\ frame.limitCycles = {}
    /\ rom.loaded
    /\ frame.frameCounter = 1
    /\ frame.pending = 0
    /\ frame.executed = 2

\* C39: a loadRom call on a file with the right signature, whatever its
\* byte 4, stores ROM byte 16+k at $8000+k for every k below
\* min(16384 x banks, 32768), and every address below $8000 keeps the
\* content it had before the call.
C39_LoadRomWritesOnlyPrgSpace ==
    (call.fn = "loadRom" /\ call.file.magic) =>
        LET size == PrgRomSize(call.file)
            n == IF size < 32768 THEN size ELSE 32768
        IN /\ \A k \in 0 .. n - 1 :
                MemRead(data, 32768 + k) = PrgByte(call.file, k)
           /\ \A a \in (DOMAIN data) \cup (DOMAIN call.data) :
                a < 32768 => Peek(data, a) = Peek(call.data, a)

\* C39 witness: a three-bank file has been loaded after test_program's
\* LDA #5 ran at $0000; the program is still there, and the first and the
\* last-but-two byte of the first 32 KiB of PRG data stand at $8000 and
\* $FFFD.
C39_Witness ==
    /\ call.fn = "loadRom"
    /\ call.file.magic
    /\ call.file.prgBanks = 3
    /\ steps = 1
    /\ MemRead(call.data, 0) = 169
    /\ MemRead(data, 0) = 169
    /\ MemRead(data, 1) = 5
    /\ MemRead(data, 32768) = 141
    /\ MemRead(data, 65533) = 192

====
